---- MODULE Spec2Model ----
(***************************************************************************)
(* Code-block language detection and reformatting of converter_agent.py.   *)
(*                                                                         *)
(* A Python str is a sequence of one-character strings; the backquote,     *)
(* which a TLA+ string cannot hold, is the element "GRAVE".  The regular   *)
(* expressions of the source are written as syntax trees and matched by    *)
(* Ends, which returns every position at which a match starting at a       *)
(* given position can end.                                                 *)
(***************************************************************************)
EXTENDS Integers, Sequences, FiniteSets, TLC

VARIABLES
    pc,                \* position of the caller
    code_text,         \* argument code_text
    language,          \* argument language (language_hint of detect_code_language)
    url,               \* argument url
    markdown_content,  \* argument markdown_content of post_process_markdown
    timestamp,         \* what datetime.datetime.now().isoformat() returned
    ret,               \* value returned by the call
    ret2,              \* value returned by a second call
    timestamp2,        \* what the clock returned in the second call
    DOCS_CACHE,        \* the module-level dict of documentation snippets
    workers,           \* the calls of parallel workers: arguments, position, result
    workflow,          \* integrated_workflow.main: arguments, position, locals
    files,             \* the file system: path -> what the file holds
    converter,         \* process_csv_files: position, files to go, generator calls
    crawler            \* crawl_sitemap: urls, batch, the scrape_page tasks

vars == <<pc, code_text, language, url, markdown_content, timestamp, ret, ret2,
          timestamp2, DOCS_CACHE, workers, workflow, files, converter, crawler>>

\* the state of the formatting core
Core == <<pc, code_text, language, url, markdown_content, timestamp, ret, ret2,
          timestamp2, DOCS_CACHE, workers>>

\* the state of the scraping and conversion pipeline
Pipeline == <<workflow, files, converter, crawler>>

\* no pipeline is running
NoPipeline ==
    /\ workflow = <<>>
    /\ files = <<>>
    /\ converter = <<>>
    /\ crawler = <<>>

\* the value None of an absent optional argument: no str equals it
None == <<"None">>

(***************************************************************************)
(* Characters and strings                                                  *)
(***************************************************************************)
LowerSeq == <<"a","b","c","d","e","f","g","h","i","j","k","l","m",
              "n","o","p","q","r","s","t","u","v","w","x","y","z">>
UpperSeq == <<"A","B","C","D","E","F","G","H","I","J","K","L","M",
              "N","O","P","Q","R","S","T","U","V","W","X","Y","Z">>
Lowers == {LowerSeq[k] : k \in DOMAIN LowerSeq}
Uppers == {UpperSeq[k] : k \in DOMAIN UpperSeq}
Digits == {"0","1","2","3","4","5","6","7","8","9"}

\* \w of the re module
WordChars == Lowers \cup Uppers \cup Digits \cup {"_"}

\* \s of the re module, and the characters str.strip() removes
SpaceChars == {" ", "\t", "\n", "\r", "\f"}

ToLowerChar(c) ==
    IF c \in Uppers THEN LowerSeq[CHOOSE k \in DOMAIN UpperSeq : UpperSeq[k] = c]
    ELSE c

\* str.lower()
StrLower(s) == [k \in DOMAIN s |-> ToLowerChar(s[k])]

SetMax(S) == CHOOSE x \in S : \A y \in S : y <= x
SetMin(S) == CHOOSE x \in S : \A y \in S : x <= y

\* the positions of s that hold no whitespace
Inked(s) == {i \in 1..Len(s) : s[i] \notin SpaceChars}

\* str.lstrip()
LStrip(s) == IF Inked(s) = {} THEN <<>> ELSE SubSeq(s, SetMin(Inked(s)), Len(s))

\* str.rstrip()
RStrip(s) == IF Inked(s) = {} THEN <<>> ELSE SubSeq(s, 1, SetMax(Inked(s)))

\* str.strip()
Strip(s) == LStrip(RStrip(s))

RECURSIVE Concat(_)
\* "".join(parts)
Concat(parts) ==
    IF parts = <<>> THEN <<>> ELSE Head(parts) \o Concat(Tail(parts))

RECURSIVE JoinLines(_)
\* "\n".join(lines)
JoinLines(lines) ==
    IF lines = <<>> THEN <<>>
    ELSE IF Len(lines) = 1 THEN lines[1]
    ELSE lines[1] \o <<"\n">> \o JoinLines(Tail(lines))

\* the positions of the line breaks of s
Breaks(s) == {i \in 1..Len(s) : s[i] = "\n"}

\* the position of the k-th line break of s; the end of s stands for a last one
BreakAt(s, k) ==
    IF k = 0 THEN 0
    ELSE IF k > Cardinality(Breaks(s)) THEN Len(s) + 1
    ELSE CHOOSE p \in Breaks(s) : Cardinality({q \in Breaks(s) : q <= p}) = k

\* str.splitlines(): a final line break opens no further line
SplitLines(s) ==
    LET n == Cardinality(Breaks(s))
               + (IF s # <<>> /\ s[Len(s)] # "\n" THEN 1 ELSE 0)
    IN  [k \in 1..n |-> SubSeq(s, BreakAt(s, k - 1) + 1, BreakAt(s, k) - 1)]

\* the substring test  a in b
Contains(b, a) ==
    \E i \in 1..(Len(b) - Len(a) + 1) : SubSeq(b, i, i + Len(a) - 1) = a

(***************************************************************************)
(* Regular expressions of the re module                                    *)
(***************************************************************************)
Lit(w)    == [t |-> "lit", w |-> w]          \* the characters of w
Cls(S)    == [t |-> "cls", set |-> S]        \* [...]
NCls(S)   == [t |-> "ncls", set |-> S]       \* [^...]
Dot       == [t |-> "dot"]                   \* .
Cat(rs)   == [t |-> "cat", rs |-> rs]        \* r1 r2 ...
Alt(rs)   == [t |-> "alt", rs |-> rs]        \* r1|r2|...
Star(r)   == [t |-> "star", r |-> r]         \* r* of a one-character r
Plus(r)   == Cat(<<r, Star(r)>>)             \* r+
Opt(r)    == Alt(<<r, Cat(<<>>)>>)           \* r?
Bol       == [t |-> "bol"]                   \* ^
Eol       == [t |-> "eol"]                   \* $
WordB     == [t |-> "wordb"]                 \* \b
ReW       == Cls(WordChars)                  \* \w
ReS       == Cls(SpaceChars)                 \* \s

\* flags of a match: IGNORECASE, MULTILINE, DOTALL
Flags(ic, ml, da) == [ic |-> ic, ml |-> ml, da |-> da]
NoFlags == Flags(FALSE, FALSE, FALSE)

IsWordAt(s, i) == i >= 1 /\ i <= Len(s) /\ s[i] \in WordChars

InSet(c, set, f) ==
    \/ c \in set
    \/ f.ic /\ \E d \in set : ToLowerChar(d) = ToLowerChar(c)

LitAt(w, s, i, f) ==
    /\ i + Len(w) - 1 <= Len(s)
    /\ \A k \in 1..Len(w) :
          \/ s[i + k - 1] = w[k]
          \/ f.ic /\ ToLowerChar(s[i + k - 1]) = ToLowerChar(w[k])

\* the character c matches the one-character expression r
CharMatch(r, c, f) ==
    CASE r.t = "cls"  -> InSet(c, r.set, f)
      [] r.t = "ncls" -> ~InSet(c, r.set, f)
      [] r.t = "dot"  -> f.da \/ c # "\n"

RECURSIVE Ends(_, _, _, _)
RECURSIVE CatEnds(_, _, _, _, _)

\* the positions j such that s[i..j-1] matches r
Ends(r, s, i, f) ==
    CASE r.t = "lit"   -> IF LitAt(r.w, s, i, f) THEN {i + Len(r.w)} ELSE {}
      [] r.t \in {"cls", "ncls", "dot"} ->
             IF i <= Len(s) /\ CharMatch(r, s[i], f) THEN {i + 1} ELSE {}
      [] r.t = "cat"   -> CatEnds(r.rs, 1, s, {i}, f)
      [] r.t = "alt"   -> UNION {Ends(r.rs[k], s, i, f) : k \in DOMAIN r.rs}
      [] r.t = "star"  ->
             {j \in i..(Len(s) + 1) : \A k \in i..(j - 1) : CharMatch(r.r, s[k], f)}
      [] r.t = "bol"   -> IF i = 1 \/ (f.ml /\ s[i - 1] = "\n") THEN {i} ELSE {}
      [] r.t = "eol"   -> IF \/ i = Len(s) + 1
                             \/ i = Len(s) /\ s[i] = "\n"
                             \/ f.ml /\ i <= Len(s) /\ s[i] = "\n"
                          THEN {i} ELSE {}
      [] r.t = "wordb" -> IF IsWordAt(s, i - 1) # IsWordAt(s, i) THEN {i} ELSE {}

CatEnds(rs, k, s, from, f) ==
    IF k > Len(rs) \/ from = {} THEN from
    ELSE CatEnds(rs, k + 1, s, UNION {Ends(rs[k], s, i, f) : i \in from}, f)

\* re.search(r, s, flags) is not None
Search(r, s, f) == \E i \in 1..(Len(s) + 1) : Ends(r, s, i, f) # {}

ReS0 == Star(ReS)     \* \s*
ReS1 == Plus(ReS)     \* \s+
ReW1 == Plus(ReW)     \* \w+
Quote == Cls({"'", "\""})   \* ['"]

(***************************************************************************)
(* detect_code_language                                                    *)
(***************************************************************************)
AllowDomains == {<<"c","r","a","w","l","4","a","i",".","c","o","m">>, <<"p","y","d","a","n","t","i","c",".","d","e","v">>, <<"g","i","t","h","u","b",".","i","o","/","l","a","n","g","g","r","a","p","h">>}

\* import|def\s+\w+|class\s+\w+|async\s+def|await|with\s+|try:|except:
UrlPriorRe == Alt(<<
    Lit(<<"i","m","p","o","r","t">>),
    Cat(<<Lit(<<"d","e","f">>), ReS1, ReW1>>),
    Cat(<<Lit(<<"c","l","a","s","s">>), ReS1, ReW1>>),
    Cat(<<Lit(<<"a","s","y","n","c">>), ReS1, Lit(<<"d","e","f">>)>>),
    Lit(<<"a","w","a","i","t">>),
    Cat(<<Lit(<<"w","i","t","h">>), ReS1>>),
    Lit(<<"t","r","y",":">>),
    Lit(<<"e","x","c","e","p","t",":">>)>>)

PythonRe == Alt(<<
    Cat(<<Lit(<<"i","m","p","o","r","t">>), ReS1, ReW1>>),
    Cat(<<Lit(<<"f","r","o","m">>), ReS1, ReW1, ReS1, Lit(<<"i","m","p","o","r","t">>)>>),
    Cat(<<Lit(<<"d","e","f">>), ReS1, ReW1, ReS0, Lit(<<"(">>)>>),
    Cat(<<Lit(<<"c","l","a","s","s">>), ReS1, ReW1>>),
    Cat(<<Lit(<<"a","s","y","n","c">>), ReS1, Lit(<<"d","e","f">>)>>),
    Cat(<<Lit(<<"@">>), ReW1>>),
    Cat(<<Lit(<<"a","w","a","i","t">>), ReS1>>),
    Cat(<<Lit(<<"w","i","t","h">>), ReS1>>),
    Cat(<<Lit(<<"i","f">>), ReS1, Lit(<<"_","_","n","a","m","e","_","_">>), ReS0, Lit(<<"=","=">>), ReS0,
          Quote, Lit(<<"_","_","m","a","i","n","_","_">>), Quote>>)>>)

JavaScriptRe == Alt(<<
    Cat(<<Lit(<<"f","u","n","c","t","i","o","n">>), ReS1, ReW1, ReS0, Lit(<<"(">>)>>),
    Cat(<<ReW1, ReS0, Lit(<<"=",">">>), ReS0, Cls({"{", "("})>>),
    Cat(<<Lit(<<"c","o","n","s","t">>), ReS1, ReW1, ReS0, Lit(<<"=">>)>>),
    Cat(<<Lit(<<"l","e","t">>), ReS1, ReW1, ReS0, Lit(<<"=">>)>>),
    Cat(<<Lit(<<"v","a","r">>), ReS1, ReW1, ReS0, Lit(<<"=">>)>>),
    Cat(<<Lit(<<"i","m","p","o","r","t">>), ReS1, Star(Dot), Lit(<<"f","r","o","m">>), ReS1, Quote>>),
    Cat(<<Lit(<<"e","x","p","o","r","t">>), ReS1>>),
    Cat(<<Lit(<<"c","l","a","s","s">>), ReS1, ReW1, ReS0, Lit(<<"{">>), ReS0, Lit(<<"c","o","n","s","t","r","u","c","t","o","r">>)>>),
    Cat(<<Lit(<<"n","e","w">>), ReS1, ReW1, Lit(<<"(">>)>>)>>)

TypeScriptRe == Alt(<<
    Cat(<<Lit(<<":">>), ReS0, ReW1, Opt(Lit(<<"[","]">>))>>),
    Cat(<<Lit(<<"i","n","t","e","r","f","a","c","e">>), ReS1, ReW1>>),
    Cat(<<Lit(<<"<">>), ReW1, Lit(<<">">>)>>),
    Cat(<<Lit(<<"i","m","p","l","e","m","e","n","t","s">>), ReS1>>),
    Cat(<<Lit(<<"n","a","m","e","s","p","a","c","e">>), ReS1>>)>>)

HtmlRe == Alt(<<
    Cat(<<Lit(<<"<">>),
          Alt(<<Lit(<<"!","D","O","C","T","Y","P","E">>), Lit(<<"h","t","m","l">>), Lit(<<"h","e","a","d">>), Lit(<<"b","o","d","y">>),
                Lit(<<"d","i","v">>), Lit(<<"s","p","a","n">>), Lit(<<"p">>), Lit(<<"a">>), Lit(<<"i","m","g">>),
                Lit(<<"u","l">>), Lit(<<"o","l">>), Lit(<<"l","i">>), Lit(<<"t","a","b","l","e">>), Lit(<<"f","o","r","m">>),
                Lit(<<"i","n","p","u","t">>)>>),
          WordB>>),
    Cat(<<Lit(<<"<","/">>), ReW1, Lit(<<">">>)>>)>>)

SqlRe == Alt(<<
    Cat(<<Lit(<<"S","E","L","E","C","T">>), ReS1, Plus(Dot), ReS1, Lit(<<"F","R","O","M">>)>>),
    Cat(<<Lit(<<"I","N","S","E","R","T">>), ReS1, Lit(<<"I","N","T","O">>)>>),
    Cat(<<Lit(<<"U","P","D","A","T","E">>), ReS1, Plus(Dot), ReS1, Lit(<<"S","E","T">>)>>),
    Cat(<<Lit(<<"D","E","L","E","T","E">>), ReS1, Lit(<<"F","R","O","M">>)>>),
    Cat(<<Lit(<<"C","R","E","A","T","E">>), ReS1, Lit(<<"T","A","B","L","E">>)>>),
    Cat(<<Lit(<<"A","L","T","E","R">>), ReS1, Lit(<<"T","A","B","L","E">>)>>),
    Cat(<<Lit(<<"D","R","O","P">>), ReS1, Lit(<<"T","A","B","L","E">>)>>)>>)

\* ^\s*\{\s*"\w+"\s*:\s*
JsonOpenRe == Cat(<<Bol, ReS0, Lit(<<"{">>), ReS0, Lit(<<"\"">>), ReW1, Lit(<<"\"">>),
                    ReS0, Lit(<<":">>), ReS0>>)

\* }\s*$
JsonCloseRe == Cat(<<Lit(<<"}">>), ReS0, Eol>>)

JavaRe == Alt(<<
    Cat(<<Lit(<<"p","u","b","l","i","c">>), ReS1, Alt(<<Lit(<<"c","l","a","s","s">>), Lit(<<"i","n","t","e","r","f","a","c","e">>)>>)>>),
    Cat(<<Lit(<<"p","r","i","v","a","t","e">>), ReS1, ReW1>>),
    Cat(<<Lit(<<"p","r","o","t","e","c","t","e","d">>), ReS1, ReW1>>),
    Lit(<<"@","O","v","e","r","r","i","d","e">>),
    Cat(<<Lit(<<"i","m","p","o","r","t">>), ReS1, Lit(<<"j","a","v","a",".">>)>>),
    Lit(<<"S","y","s","t","e","m",".","o","u","t",".","p","r","i","n","t">>)>>)

CppRe == Alt(<<
    Cat(<<Lit(<<"#","i","n","c","l","u","d","e">>), ReS1, Lit(<<"<">>), ReW1,
          Opt(Cat(<<Lit(<<".">>), ReW1>>)), Lit(<<">">>)>>),
    Lit(<<"s","t","d",":",":">>),
    Cat(<<Lit(<<"i","n","t">>), ReS1, Lit(<<"m","a","i","n">>), ReS0, Lit(<<"(">>), ReS0,
          Alt(<<Lit(<<"v","o","i","d">>), Cat(<<Lit(<<"i","n","t">>), ReS1, Lit(<<"a","r","g","c">>)>>)>>)>>),
    Cat(<<Lit(<<"v","o","i","d">>), ReS1, ReW1, ReS0, Lit(<<"(">>), ReS0, ReW1>>)>>)

GoRe == Alt(<<
    Cat(<<Lit(<<"p","a","c","k","a","g","e">>), ReS1, Lit(<<"m","a","i","n">>)>>),
    Cat(<<Lit(<<"i","m","p","o","r","t">>), ReS1, Lit(<<"(">>), ReS0, Lit(<<"\"">>)>>),
    Cat(<<Lit(<<"f","u","n","c">>), ReS1, ReW1, ReS0, Lit(<<"(">>)>>),
    Cat(<<Lit(<<"g","o">>), ReS1, Lit(<<"f","u","n","c">>)>>),
    Cat(<<Lit(<<"m","a","k","e","(">>), ReW1, Lit(<<")">>)>>)>>)

RustRe == Alt(<<
    Cat(<<Lit(<<"f","n">>), ReS1, ReW1>>),
    Cat(<<Lit(<<"l","e","t">>), ReS1, Lit(<<"m","u","t">>), ReS1>>),
    Cat(<<Lit(<<"s","t","r","u","c","t">>), ReS1, ReW1>>),
    Cat(<<Lit(<<"i","m","p","l">>), ReS1>>),
    Cat(<<Lit(<<"u","s","e">>), ReS1, ReW1, Lit(<<":",":">>)>>),
    Cat(<<Lit(<<"p","u","b">>), ReS1, Lit(<<"f","n">>)>>)>>)

BashRe == Alt(<<
    Cat(<<Lit(<<"#","!","/","b","i","n","/">>), Opt(Lit(<<"b","a">>)), Lit(<<"s","h">>)>>),
    Cat(<<Lit(<<"e","x","p","o","r","t">>), ReS1, ReW1, Lit(<<"=">>)>>),
    Cat(<<Lit(<<"$","(">>), ReW1, Lit(<<")">>)>>),
    Cat(<<Lit(<<"i","f">>), ReS1, Lit(<<"[">>), ReS1>>),
    Cat(<<Lit(<<"[">>), ReS1, Plus(Dot), ReS1, Lit(<<"]">>)>>)>>)

\* ^\s*\w+:\s*\n\s+-\s+  with re.MULTILINE
YamlRe == Cat(<<Bol, ReS0, ReW1, Lit(<<":">>), ReS0, Lit(<<"\n">>), ReS1, Lit(<<"-">>), ReS1>>)

IgnoreCase == Flags(TRUE, FALSE, FALSE)
MultiLine  == Flags(FALSE, TRUE, FALSE)

\* the hint decides: it is given, not blank and not "text" in any case
HintDecides(language_hint) ==
    /\ language_hint # None
    /\ language_hint # <<>>
    /\ Strip(language_hint) # <<>>
    /\ StrLower(Strip(language_hint)) # <<"t","e","x","t">>

\* UrlPrior without the test of the domain
UrlPrior_AnyUrl(code_text_, url_) ==
    /\ url_ # None
    /\ url_ # <<>>
    /\ Search(UrlPriorRe, code_text_, NoFlags)

\* the url names a domain whose documentation is mostly Python
UrlPrior(code_text_, url_) ==
    /\ url_ # None
    /\ url_ # <<>>
    /\ \E domain \in AllowDomains : Contains(url_, domain)
    /\ Search(UrlPriorRe, code_text_, NoFlags)

\* the cascade with the TypeScript test as a rule of its own
PatternDetect_TsOwnRule(t) ==
    IF Search(PythonRe, t, IgnoreCase) THEN <<"p","y","t","h","o","n">>
    ELSE IF Search(TypeScriptRe, t, NoFlags) THEN <<"t","y","p","e","s","c","r","i","p","t">>
    ELSE IF Search(JavaScriptRe, t, NoFlags) THEN <<"j","a","v","a","s","c","r","i","p","t">>
    ELSE IF Search(HtmlRe, t, IgnoreCase) THEN <<"h","t","m","l">>
    ELSE IF Search(SqlRe, t, IgnoreCase) THEN <<"s","q","l">>
    ELSE IF Search(JsonOpenRe, t, NoFlags) /\ Search(JsonCloseRe, t, NoFlags)
         THEN <<"j","s","o","n">>
    ELSE IF Search(JavaRe, t, NoFlags) THEN <<"j","a","v","a">>
    ELSE IF Search(CppRe, t, NoFlags) THEN <<"c","p","p">>
    ELSE IF Search(GoRe, t, NoFlags) THEN <<"g","o">>
    ELSE IF Search(RustRe, t, NoFlags) THEN <<"r","u","s","t">>
    ELSE IF Search(BashRe, t, NoFlags) THEN <<"b","a","s","h">>
    ELSE IF Search(YamlRe, t, MultiLine) THEN <<"y","a","m","l">>
    ELSE <<"t","e","x","t">>

\* the cascade whose JSON test looks at the beginning of the text only
PatternDetect_JsonOpenOnly(t) ==
    IF Search(PythonRe, t, IgnoreCase) THEN <<"p","y","t","h","o","n">>
    ELSE IF Search(JavaScriptRe, t, NoFlags)
         THEN IF Search(TypeScriptRe, t, NoFlags) THEN <<"t","y","p","e","s","c","r","i","p","t">>
              ELSE <<"j","a","v","a","s","c","r","i","p","t">>
    ELSE IF Search(HtmlRe, t, IgnoreCase) THEN <<"h","t","m","l">>
    ELSE IF Search(SqlRe, t, IgnoreCase) THEN <<"s","q","l">>
    ELSE IF Search(JsonOpenRe, t, NoFlags) THEN <<"j","s","o","n">>
    ELSE IF Search(JavaRe, t, NoFlags) THEN <<"j","a","v","a">>
    ELSE IF Search(CppRe, t, NoFlags) THEN <<"c","p","p">>
    ELSE IF Search(GoRe, t, NoFlags) THEN <<"g","o">>
    ELSE IF Search(RustRe, t, NoFlags) THEN <<"r","u","s","t">>
    ELSE IF Search(BashRe, t, NoFlags) THEN <<"b","a","s","h">>
    ELSE IF Search(YamlRe, t, MultiLine) THEN <<"y","a","m","l">>
    ELSE <<"t","e","x","t">>

\* the cascade with the HTML test moved in front of the JavaScript test
PatternDetect_HtmlFirst(t) ==
    IF Search(PythonRe, t, IgnoreCase) THEN <<"p","y","t","h","o","n">>
    ELSE IF Search(HtmlRe, t, IgnoreCase) THEN <<"h","t","m","l">>
    ELSE IF Search(JavaScriptRe, t, NoFlags)
         THEN IF Search(TypeScriptRe, t, NoFlags) THEN <<"t","y","p","e","s","c","r","i","p","t">>
              ELSE <<"j","a","v","a","s","c","r","i","p","t">>
    ELSE IF Search(SqlRe, t, IgnoreCase) THEN <<"s","q","l">>
    ELSE IF Search(JsonOpenRe, t, NoFlags) /\ Search(JsonCloseRe, t, NoFlags)
         THEN <<"j","s","o","n">>
    ELSE IF Search(JavaRe, t, NoFlags) THEN <<"j","a","v","a">>
    ELSE IF Search(CppRe, t, NoFlags) THEN <<"c","p","p">>
    ELSE IF Search(GoRe, t, NoFlags) THEN <<"g","o">>
    ELSE IF Search(RustRe, t, NoFlags) THEN <<"r","u","s","t">>
    ELSE IF Search(BashRe, t, NoFlags) THEN <<"b","a","s","h">>
    ELSE IF Search(YamlRe, t, MultiLine) THEN <<"y","a","m","l">>
    ELSE <<"t","e","x","t">>

\* the if/elif cascade of patterns
PatternDetect(t) ==
    IF Search(PythonRe, t, IgnoreCase) THEN <<"p","y","t","h","o","n">>
    ELSE IF Search(JavaScriptRe, t, NoFlags)
         THEN IF Search(TypeScriptRe, t, NoFlags) THEN <<"t","y","p","e","s","c","r","i","p","t">>
              ELSE <<"j","a","v","a","s","c","r","i","p","t">>
    ELSE IF Search(HtmlRe, t, IgnoreCase) THEN <<"h","t","m","l">>
    ELSE IF Search(SqlRe, t, IgnoreCase) THEN <<"s","q","l">>
    ELSE IF Search(JsonOpenRe, t, NoFlags) /\ Search(JsonCloseRe, t, NoFlags)
         THEN <<"j","s","o","n">>
    ELSE IF Search(JavaRe, t, NoFlags) THEN <<"j","a","v","a">>
    ELSE IF Search(CppRe, t, NoFlags) THEN <<"c","p","p">>
    ELSE IF Search(GoRe, t, NoFlags) THEN <<"g","o">>
    ELSE IF Search(RustRe, t, NoFlags) THEN <<"r","u","s","t">>
    ELSE IF Search(BashRe, t, NoFlags) THEN <<"b","a","s","h">>
    ELSE IF Search(YamlRe, t, MultiLine) THEN <<"y","a","m","l">>
    ELSE <<"t","e","x","t">>

\* detect_code_language that looks at the url before it looks at the hint
detect_code_language_UrlFirst(code_text_, language_hint, url_) ==
    IF UrlPrior(code_text_, url_) THEN <<"p","y","t","h","o","n">>
    ELSE IF HintDecides(language_hint) THEN StrLower(Strip(language_hint))
    ELSE PatternDetect(code_text_)

detect_code_language(code_text_, language_hint, url_) ==
    IF HintDecides(language_hint) THEN StrLower(Strip(language_hint))
    ELSE IF UrlPrior(code_text_, url_) THEN <<"p","y","t","h","o","n">>
    ELSE PatternDetect(code_text_)

(***************************************************************************)
(* re.sub with the replacement templates of process_code_block             *)
(***************************************************************************)
SpaceAfter(n) == [k |-> "space_after", n |-> n]     \* r'kw \1' for kw(\w+)
SpacedOp      == [k |-> "spaced_op"]                \* r'\1 = \2' for (a)=(b)
NameParen(w)  == [k |-> "name_paren", name |-> w]   \* r'\1(' for (Name)\s*\(
SameText      == [k |-> "same"]                     \* r'.\1(' for \.(\w+)\(

\* the replacement text for the matched text m
Expand(repl, m) ==
    CASE repl.k = "space_after" ->
             SubSeq(m, 1, repl.n) \o <<" ">> \o SubSeq(m, repl.n + 1, Len(m))
      [] repl.k = "spaced_op"   -> <<m[1], " ", m[2], " ", m[3]>>
      [] repl.k = "name_paren"  -> repl.name \o <<"(">>
      [] repl.k = "same"        -> m

RECURSIVE SubFrom(_, _, _, _)
\* leftmost matches, each greedy, none overlapping; the rest is copied
SubFrom(r, repl, s, i) ==
    LET starts == {j \in i..Len(s) : Ends(r, s, j, NoFlags) # {}}
        from   == SetMin(starts)
        to     == SetMax(Ends(r, s, from, NoFlags))
    IN  IF starts = {} THEN SubSeq(s, i, Len(s))
        ELSE SubSeq(s, i, from - 1) \o Expand(repl, SubSeq(s, from, to - 1))
                 \o SubFrom(r, repl, s, to)

\* re.sub(r, repl, s)
ReSub(r, repl, s) == SubFrom(r, repl, s, 1)

\* one statement  content = re.sub(r, repl, content)
Sub(r, repl) == [r |-> r, repl |-> repl]

\* the value of the one-element set V
Only(V) == CHOOSE x \in V : TRUE

RECURSIVE ApplySubs(_, _, _)
\* the statements subs[k], subs[k+1], ... run one after the other on content
ApplySubs(subs, k, content) ==
    IF k > Len(subs) THEN content
    ELSE Only({ApplySubs(subs, k + 1, c) :
                  c \in {ReSub(subs[k].r, subs[k].repl, content)}})

\* re.sub(r'kw(\w+)', r'kw \1', content)
KeywordSub(kw) == Sub(Cat(<<Lit(kw), ReW1>>), SpaceAfter(Len(kw)))

\* re.sub(r'([^pre])op([^post])', r'\1 op \2', content)
OperatorSub(pre, op, post) ==
    Sub(Cat(<<NCls(pre), Lit(<<op>>), NCls(post)>>), SpacedOp)

\* re.sub(r'(Name)\s*\(', r'\1(', content)
CallSub(name) == Sub(Cat(<<Lit(name), ReS0, Lit(<<"(">>)>>), NameParen(name))

\* re.sub(r'\.(\w+)\(', r'.\1(', content)
ChainSub == Sub(Cat(<<Lit(<<".">>), ReW1, Lit(<<"(">>)>>), SameText)

(***************************************************************************)
(* process_code_block                                                      *)
(***************************************************************************)
MinLength == 5

PyKeywords == <<<<"i","m","p","o","r","t">>, <<"f","r","o","m">>, <<"d","e","f">>, <<"c","l","a","s","s">>, <<"i","f">>, <<"e","l","i","f">>, <<"f","o","r">>,
                <<"w","h","i","l","e">>, <<"w","i","t","h">>, <<"r","e","t","u","r","n">>, <<"e","x","c","e","p","t">>, <<"a","s">>, <<"i","n">>,
                <<"a","w","a","i","t">>, <<"a","s","y","n","c">>>>

JsKeywords == <<<<"f","u","n","c","t","i","o","n">>, <<"c","o","n","s","t">>, <<"l","e","t">>, <<"v","a","r">>, <<"i","f">>, <<"e","l","s","e">>, <<"f","o","r">>,
                <<"w","h","i","l","e">>, <<"s","w","i","t","c","h">>, <<"r","e","t","u","r","n">>>>

\* the JavaScript family with yaml counted in
JsFamily_WithYaml == {<<"j","a","v","a","s","c","r","i","p","t">>, <<"t","y","p","e","s","c","r","i","p","t">>, <<"j","s","x">>, <<"t","s","x">>, <<"y","a","m","l">>}

JsFamily == {<<"j","a","v","a","s","c","r","i","p","t">>, <<"t","y","p","e","s","c","r","i","p","t">>, <<"j","s","x">>, <<"t","s","x">>}

CrawlImport == <<"f","r","o","m"," ","c","r","a","w","l","4","a","i"," ","i","m","p","o","r","t"," ","A","s","y","n","c","W","e","b","C","r","a","w","l","e","r",","," ","C","r","a","w","l","e","r","R","u","n","C","o","n","f","i","g","\n">>

\* 'crawl4ai' in url.lower() if url else False
IsCrawl4ai(url_) ==
    /\ url_ # None
    /\ url_ # <<>>
    /\ Contains(StrLower(url_), <<"c","r","a","w","l","4","a","i">>)

\* not line.strip()
IsBlank(line) == Strip(line) = <<>>

RECURSIVE DropLeadingBlank(_)
DropLeadingBlank(lines) ==
    IF lines # <<>> /\ IsBlank(Head(lines)) THEN DropLeadingBlank(Tail(lines))
    ELSE lines

RECURSIVE DropTrailingBlank(_)
DropTrailingBlank(lines) ==
    IF lines # <<>> /\ IsBlank(lines[Len(lines)])
    THEN DropTrailingBlank(SubSeq(lines, 1, Len(lines) - 1))
    ELSE lines

\* TrimmedLines whose second loop pops before it tests: the last line is lost
TrimmedLines_PopsLast(code_text_) ==
    LET lines == DropLeadingBlank(SplitLines(code_text_))
    IN  IF lines = <<>> THEN lines
        ELSE DropTrailingBlank(SubSeq(lines, 1, Len(lines) - 1))

\* the lines of the block without blank lines at its beginning and end
TrimmedLines(code_text_) == DropTrailingBlank(DropLeadingBlank(SplitLines(code_text_)))

\* len(line) - len(line.lstrip())
Indent(line) == Len(line) - Len(LStrip(line))

\* the minimum taken over the blank lines too
MinIndent_CountsBlank(lines) ==
    SetMin({Indent(lines[k]) : k \in DOMAIN lines})

MinIndent(lines) ==
    SetMin({Indent(lines[k]) : k \in {j \in DOMAIN lines : ~IsBlank(lines[j])}})

Spaces(n) == [k \in 1..n |-> " "]

\* RelativeIndent that forgets the deeper lines' indentation
RelativeIndent_Flat(line, min_indent) == <<>>

RelativeIndent(line, min_indent) ==
    IF Indent(line) > min_indent THEN Spaces(Indent(line) - min_indent) ELSE <<>>

\* "Fix common Python spacing issues"
PythonKeywordSubs == [k \in DOMAIN PyKeywords |-> KeywordSub(PyKeywords[k])]

\* "Fix common JS spacing issues"
JsKeywordSubs == [k \in DOMAIN JsKeywords |-> KeywordSub(JsKeywords[k])]

\* "Crawl4AI specific patterns"
Crawl4aiSubs == <<CallSub(<<"C","r","a","w","l","e","r","R","u","n","C","o","n","f","i","g">>), CallSub(<<"A","s","y","n","c","W","e","b","C","r","a","w","l","e","r">>),
                  CallSub(<<"D","e","f","a","u","l","t","M","a","r","k","d","o","w","n","G","e","n","e","r","a","t","o","r">>)>>

\* "Fix operator spacing" of the python branch
PythonOperatorSubs == <<
    OperatorSub({"=", "!", "<", ">"}, "=", {"="}),
    OperatorSub({"+"}, "+", {"+", "="}),
    OperatorSub({"-"}, "-", {"-", "="}),
    OperatorSub({"*"}, "*", {"*", "="}),
    OperatorSub({"/"}, "/", {"/", "="})>>

\* "Fix operator spacing" of the javascript branch
JsOperatorSubs == <<
    OperatorSub({"=", "!", "<", ">"}, "=", {"="}),
    OperatorSub({"+"}, "+", {"+", "="}),
    OperatorSub({"-"}, "-", {"-", "="})>>

\* the body of the python loop for a line that is not blank
PythonContent(content, url_) ==
    ApplySubs(PythonKeywordSubs
                  \o (IF IsCrawl4ai(url_) THEN Crawl4aiSubs ELSE <<>>)
                  \o <<ChainSub>> \o PythonOperatorSubs,
              1, content)

\* the body of the javascript loop for a line that is not blank
JsContent(content) == ApplySubs(JsKeywordSubs \o JsOperatorSubs, 1, content)

\* one formatted line: family is "python", "js" or "plain"
\* FormatLine that emits a blank line as it stands
FormatLine_BlankVerbatim(line, min_indent, family, url_) ==
    IF IsBlank(line) THEN line
    ELSE RelativeIndent(line, min_indent) \o
         (CASE family = "python" -> PythonContent(LStrip(line), url_)
            [] family = "js"     -> JsContent(LStrip(line))
            [] OTHER             -> LStrip(line))

FormatLine(line, min_indent, family, url_) ==
    IF IsBlank(line) THEN <<>>
    ELSE RelativeIndent(line, min_indent) \o
         (CASE family = "python" -> PythonContent(LStrip(line), url_)
            [] family = "js"     -> JsContent(LStrip(line))
            [] OTHER             -> LStrip(line))

FormatLines(lines, family, url_) ==
    JoinLines([k \in DOMAIN lines |->
                  FormatLine(lines[k], MinIndent(lines), family, url_)])

\* ^(import|from) with re.MULTILINE
ImportLineRe == Cat(<<Bol, Alt(<<Lit(<<"i","m","p","o","r","t">>), Lit(<<"f","r","o","m">>)>>)>>)

\* the synthesized import of the Crawl4AI classes
FixImports(formatted_code, url_) ==
    IF /\ IsCrawl4ai(url_)
       /\ Contains(formatted_code, <<"A","s","y","n","c","W","e","b","C","r","a","w","l","e","r">>)
       /\ ~Contains(formatted_code, <<"f","r","o","m"," ","c","r","a","w","l","4","a","i"," ","i","m","p","o","r","t"," ","A","s","y","n","c","W","e","b","C","r","a","w","l","e","r">>)
       /\ Search(ImportLineRe, formatted_code, MultiLine)
    THEN LET insert_point ==
                 SetMin({i \in 1..(Len(formatted_code) + 1) :
                            Ends(ImportLineRe, formatted_code, i, MultiLine) # {}})
         IN  SubSeq(formatted_code, 1, insert_point - 1) \o CrawlImport
                 \o SubSeq(formatted_code, insert_point, Len(formatted_code))
    ELSE formatted_code

(***************************************************************************)
(* json.loads and json.dumps(..., indent=2)                                *)
(*                                                                         *)
(* A parsed value is a record tagged by k: an int, a str, a list of        *)
(* values, a dict (its items in insertion order, keys distinct) or one of  *)
(* the constants.  Numbers are integers and strings hold no escapes: the   *)
(* texts of the model hold no backslash, fraction or exponent.             *)
(***************************************************************************)
JsonWs == {" ", "\t", "\n", "\r"}
ControlChars == {"\t", "\n", "\r", "\f"}

JErr == [ok |-> FALSE]
JOk(v, i) == [ok |-> TRUE, v |-> v, i |-> i]

JInt(n)      == [k |-> "int", v |-> n]
JStr(w)      == [k |-> "str", v |-> w]
JList(items) == [k |-> "list", v |-> items]
JDict(items) == [k |-> "dict", v |-> items]
JConst(name) == [k |-> "const", v |-> name]

RECURSIVE SkipWs(_, _)
SkipWs(s, i) == IF i <= Len(s) /\ s[i] \in JsonWs THEN SkipWs(s, i + 1) ELSE i

RECURSIVE StringEnd(_, _)
\* the position of the quote closing a string, 0 when the string is not closed
StringEnd(s, j) ==
    IF j > Len(s) \/ s[j] \in ControlChars THEN 0
    ELSE IF s[j] = "\"" THEN j
    ELSE StringEnd(s, j + 1)

RECURSIVE DigitsEnd(_, _)
DigitsEnd(s, j) == IF j <= Len(s) /\ s[j] \in Digits THEN DigitsEnd(s, j + 1) ELSE j

DigitSeq == <<"0","1","2","3","4","5","6","7","8","9">>
DigitValue(c) == (CHOOSE k \in DOMAIN DigitSeq : DigitSeq[k] = c) - 1

RECURSIVE DigitsValue(_)
\* int(digits)
DigitsValue(w) ==
    IF w = <<>> THEN 0
    ELSE 10 * DigitsValue(SubSeq(w, 1, Len(w) - 1)) + DigitValue(w[Len(w)])

RECURSIVE NatToStr(_)
NatToStr(n) ==
    IF n < 10 THEN <<DigitSeq[n + 1]>>
    ELSE NatToStr(n \div 10) \o <<DigitSeq[(n % 10) + 1]>>

\* str(n) of an int
IntToStr(n) == IF n < 0 THEN <<"-">> \o NatToStr(-n) ELSE NatToStr(n)

\* -?(0|[1-9]\d*)
ParseNumber(s, i) ==
    LET d == IF s[i] = "-" THEN i + 1 ELSE i
    IN  IF d > Len(s) \/ s[d] \notin Digits THEN JErr
        ELSE LET e == IF s[d] = "0" THEN d + 1 ELSE DigitsEnd(s, d)
                 n == DigitsValue(SubSeq(s, d, e - 1))
             IN  JOk(JInt(IF d > i THEN -n ELSE n), e)

RECURSIVE SetItem(_, _, _)
\* d[key] = value on the items of a dict
SetItem(items, key, value) ==
    IF items = <<>> THEN <<[key |-> key, value |-> value]>>
    ELSE IF Head(items).key = key
         THEN <<[key |-> key, value |-> value]>> \o Tail(items)
         ELSE <<Head(items)>> \o SetItem(Tail(items), key, value)

RECURSIVE ParseValue(_, _)
RECURSIVE ParseMembers(_, _, _)
RECURSIVE ParseItems(_, _, _)

\* JSONObject, after the opening brace
ParseObject(s, end) ==
    LET i == SkipWs(s, end)
    IN  IF i > Len(s) THEN JErr
        ELSE IF s[i] = "}" THEN JOk(JDict(<<>>), i + 1)
        ELSE IF s[i] # "\"" THEN JErr
        ELSE ParseMembers(s, i, <<>>)

\* the members of an object from the quote opening a key
ParseMembers(s, q, items) ==
    LET ke == StringEnd(s, q + 1)
        c  == SkipWs(s, ke + 1)
        v  == ParseValue(s, SkipWs(s, c + 1))
        n  == SkipWs(s, v.i)
        items2 == SetItem(items, SubSeq(s, q + 1, ke - 1), v.v)
        q2 == SkipWs(s, n + 1)
    IN  IF ke = 0 THEN JErr
        ELSE IF c > Len(s) \/ s[c] # ":" THEN JErr
        ELSE IF ~v.ok THEN JErr
        ELSE IF n > Len(s) THEN JErr
        ELSE IF s[n] = "}" THEN JOk(JDict(items2), n + 1)
        ELSE IF s[n] # "," THEN JErr
        ELSE IF q2 > Len(s) \/ s[q2] # "\"" THEN JErr
        ELSE ParseMembers(s, q2, items2)

\* JSONArray, after the opening bracket
ParseArray(s, end) ==
    LET i == SkipWs(s, end)
    IN  IF i <= Len(s) /\ s[i] = "]" THEN JOk(JList(<<>>), i + 1)
        ELSE ParseItems(s, i, <<>>)

ParseItems(s, i, items) ==
    LET v == ParseValue(s, i)
        n == SkipWs(s, v.i)
    IN  IF ~v.ok THEN JErr
        ELSE IF n > Len(s) THEN JErr
        ELSE IF s[n] = "]" THEN JOk(JList(Append(items, v.v)), n + 1)
        ELSE IF s[n] # "," THEN JErr
        ELSE ParseItems(s, SkipWs(s, n + 1), Append(items, v.v))

\* scan_once
ParseValue(s, i) ==
    IF i > Len(s) THEN JErr
    ELSE IF s[i] = "\""
         THEN LET e == StringEnd(s, i + 1)
              IN  IF e = 0 THEN JErr ELSE JOk(JStr(SubSeq(s, i + 1, e - 1)), e + 1)
    ELSE IF s[i] = "{" THEN ParseObject(s, i + 1)
    ELSE IF s[i] = "[" THEN ParseArray(s, i + 1)
    ELSE IF LitAt(<<"n","u","l","l">>, s, i, NoFlags) THEN JOk(JConst("null"), i + 4)
    ELSE IF LitAt(<<"t","r","u","e">>, s, i, NoFlags) THEN JOk(JConst("true"), i + 4)
    ELSE IF LitAt(<<"f","a","l","s","e">>, s, i, NoFlags) THEN JOk(JConst("false"), i + 5)
    ELSE ParseNumber(s, i)

\* json.loads(s): [ok |-> FALSE] stands for the JSONDecodeError it raises
json_loads(s) ==
    LET v == ParseValue(s, SkipWs(s, 1))
    IN  IF ~v.ok THEN JErr
        ELSE IF SkipWs(s, v.i) # Len(s) + 1 THEN JErr
        ELSE JOk(v.v, Len(s) + 1)

JsonIndent == 2

RECURSIVE Render(_, _, _)
RECURSIVE RenderItems(_, _, _, _)

\* the items of a list or dict, one per line, at nesting depth level
RenderItems(items, isDict, level, indent) ==
    LET one(x) == Spaces(indent * level) \o
                  (IF isDict
                   THEN <<"\"">> \o x.key \o <<"\"",":"," ">> \o Render(x.value, level, indent)
                   ELSE Render(x, level, indent))
    IN  IF Len(items) = 1 THEN one(items[1])
        ELSE one(items[1]) \o <<",","\n">>
                 \o RenderItems(Tail(items), isDict, level, indent)

Render(v, level, indent) ==
    CASE v.k = "int"   -> IntToStr(v.v)
      [] v.k = "str"   -> <<"\"">> \o v.v \o <<"\"">>
      [] v.k = "const" -> IF v.v = "null" THEN <<"n","u","l","l">>
                          ELSE IF v.v = "true" THEN <<"t","r","u","e">> ELSE <<"f","a","l","s","e">>
      [] v.k = "list"  -> IF v.v = <<>> THEN <<"[","]">>
                          ELSE <<"[","\n">> \o RenderItems(v.v, FALSE, level + 1, indent)
                               \o <<"\n">> \o Spaces(indent * level) \o <<"]">>
      [] v.k = "dict"  -> IF v.v = <<>> THEN <<"{","}">>
                          ELSE <<"{","\n">> \o RenderItems(v.v, TRUE, level + 1, indent)
                               \o <<"\n">> \o Spaces(indent * level) \o <<"}">>

\* json.dumps(v, indent=4)
json_dumps_Indent4(v) == Render(v, 0, 2 * JsonIndent)

\* json.dumps(v, indent=2)
json_dumps(v) == Render(v, 0, JsonIndent)

Return(text, language_) == [raised |-> FALSE, text |-> text, language |-> language_]
Raise(exc) == [raised |-> TRUE, exc |-> exc]

\* TryJson without its except clause: the error of json.loads propagates
TryJson_NoExcept(code_text_, language_) ==
    IF language_ = <<"j","s","o","n">>
    THEN LET parsed == json_loads(code_text_)
         IN  IF parsed.ok
             THEN [raised |-> FALSE, returned |-> TRUE, text |-> json_dumps(parsed.v)]
             ELSE [raised |-> TRUE, returned |-> FALSE]
    ELSE [raised |-> FALSE, returned |-> FALSE]

\* the try block of the json/yaml branch: it returns the re-serialized text,
\* or falls through to the lines below it when json.loads raised
TryJson(code_text_, language_) ==
    IF language_ = <<"j","s","o","n">>
    THEN LET parsed == json_loads(code_text_)
         IN  IF parsed.ok
             THEN [raised |-> FALSE, returned |-> TRUE, text |-> json_dumps(parsed.v)]
             ELSE [raised |-> FALSE, returned |-> FALSE]     \* except: pass
    ELSE [raised |-> FALSE, returned |-> FALSE]

\* process_code_block below its length test
FormatBlock(code_text_, language_, url_) ==
    LET lines == TrimmedLines(code_text_)
    IN  IF lines = <<>> THEN Return(code_text_, language_)
        ELSE IF language_ = <<"p","y","t","h","o","n">>
             THEN Return(FixImports(FormatLines(lines, "python", url_), url_),
                         <<"p","y","t","h","o","n">>)
        ELSE IF language_ \in JsFamily
             THEN Return(FormatLines(lines, "js", url_), language_)
        ELSE IF language_ \in {<<"j","s","o","n">>, <<"y","a","m","l">>}
             THEN LET t == TryJson(code_text_, language_)
                  IN  IF t.raised THEN Raise("JSONDecodeError")
                      ELSE IF t.returned THEN Return(t.text, language_)
                      ELSE Return(FormatLines(lines, "plain", url_), language_)
        ELSE Return(FormatLines(lines, "plain", url_), language_)

\* process_code_block without its length test
process_code_block_NoSkip(code_text_, language_, url_) ==
    FormatBlock(code_text_, language_, url_)

process_code_block(code_text_, language_, url_) ==
    IF Len(code_text_) < MinLength THEN Return(code_text_, language_)
    ELSE FormatBlock(code_text_, language_, url_)

(***************************************************************************)
(* post_process_markdown                                                   *)
(***************************************************************************)
\* the pattern of an opening fence: three backquotes, [^\n]*, \n
FenceRe == Cat(<<Lit(<<"GRAVE","GRAVE","GRAVE">>), Star(NCls({"\n"})), Lit(<<"\n">>)>>)

RECURSIVE CountFrom(_, _, _)
\* the number of matches re.findall(r, s) finds from position i on
CountFrom(r, s, i) ==
    LET starts == {j \in i..Len(s) : Ends(r, s, j, NoFlags) # {}}
        from   == SetMin(starts)
        to     == SetMax(Ends(r, s, from, NoFlags))
    IN  IF starts = {} THEN 0 ELSE 1 + CountFrom(r, s, to)

\* len(re.findall(r, s))
FindAllCount(r, s) == CountFrom(r, s, 1)

CloseFence == <<"\n","GRAVE","GRAVE","GRAVE">>

\* the match of the pattern  fence([^\n]*)\n(.*?)\nfence  with re.DOTALL that begins at i, if
\* there is one: group 1 runs to the end of the line, group 2 is the shortest
\* text that a line break and a fence follow
BlockAt(s, i) ==
    LET heads == Ends(FenceRe, s, i, NoFlags)
        body  == SetMax(heads)
        tails == {e \in body..Len(s) : LitAt(CloseFence, s, e, NoFlags)}
    IN  IF heads = {} THEN {}
        ELSE IF tails = {} THEN {}
        ELSE {[lang |-> SubSeq(s, i + 3, body - 2),
               code |-> SubSeq(s, body, SetMin(tails) - 1),
               to   |-> SetMin(tails) + Len(CloseFence)]}

replace_code_block(match, url_) ==
    LET lang       == StrLower(Strip(match.lang))
        processed  == process_code_block(match.code,
                                         IF lang # <<>> THEN lang ELSE <<"t","e","x","t">>, url_)
        final_lang == IF lang = <<>> \/ lang = <<"t","e","x","t">> THEN processed.language
                      ELSE lang
    IN  <<"GRAVE","GRAVE","GRAVE">> \o final_lang \o <<"\n">> \o processed.text \o <<"\n","GRAVE","GRAVE","GRAVE">>

RECURSIVE SubBlocks(_, _, _)
\* re.sub(fence([^\n]*)\n(.*?)\nfence, replace_code_block, s, flags=re.DOTALL)
\* from position i on
SubBlocks(s, i, url_) ==
    LET starts == {j \in i..Len(s) : BlockAt(s, j) # {}}
        from   == SetMin(starts)
        match  == Only(BlockAt(s, from))
    IN  IF starts = {} THEN SubSeq(s, i, Len(s))
        ELSE SubSeq(s, i, from - 1) \o replace_code_block(match, url_)
                 \o SubBlocks(s, match.to, url_)

\* s.split(c)
Split(s, c) ==
    LET cuts  == {i \in 1..Len(s) : s[i] = c}
        n     == Cardinality(cuts)
        at(k) == IF k = 0 THEN 0
                 ELSE IF k > n THEN Len(s) + 1
                 ELSE CHOOSE p \in cuts : Cardinality({q \in cuts : q <= p}) = k
    IN  [k \in 1..(n + 1) |-> SubSeq(s, at(k - 1) + 1, at(k) - 1)]

\* url.split('/')[2] if '://' in url else url.split('/')[0]
Domain(url_) ==
    IF Contains(url_, <<":","/","/">>) THEN Split(url_, "/")[3] ELSE Split(url_, "/")[1]

\* str(b) of a bool
BoolToStr(b) == IF b THEN <<"T","r","u","e">> ELSE <<"F","a","l","s","e">>

Frontmatter(url_, timestamp_, code_blocks_count) ==
    <<"-","-","-","\n","u","r","l",":"," ">> \o url_
        \o <<"\n","s","o","u","r","c","e",":"," ","g","e","m","i","n","i","\n","d","a","t","e","_","p","r","o","c","e","s","s","e","d",":"," ">> \o timestamp_
        \o <<"\n","d","o","m","a","i","n",":"," ">> \o Domain(url_)
        \o <<"\n","c","o","n","t","e","n","t","_","t","y","p","e",":"," ","d","o","c","u","m","e","n","t","a","t","i","o","n","\n","c","o","n","t","a","i","n","s","_","c","o","d","e",":"," ">>
        \o BoolToStr(code_blocks_count > 0) \o <<"\n">>
        \o (IF code_blocks_count > 0
            THEN <<"c","o","d","e","_","b","l","o","c","k","s","_","c","o","u","n","t",":"," ">> \o NatToStr(code_blocks_count) \o <<"\n">>
            ELSE <<>>)
        \o <<"f","o","r","m","a","t","t","e","r","_","v","e","r","s","i","o","n",":"," ","2",".","1","\n","-","-","-","\n","\n">>

Header(url_) ==
    <<"#"," ">> \o Domain(url_) \o <<"\n","\n",">"," ","O","r","i","g","i","n","a","l"," ","U","R","L",":"," ","[">> \o url_ \o <<"]","(">> \o url_
          \o <<")","\n","\n">>

\* post_process_markdown with the clock reading written below the content too
post_process_markdown_Footer(markdown_content_, url_, timestamp_) ==
    LET code_blocks_count == FindAllCount(FenceRe, markdown_content_)
        processed_content == SubBlocks(markdown_content_, 1, url_)
    IN  Frontmatter(url_, timestamp_, code_blocks_count) \o Header(url_)
            \o processed_content \o <<"\n">> \o timestamp_

\* post_process_markdown with the processed content stripped of the
\* whitespace around it
post_process_markdown_Stripped(markdown_content_, url_, timestamp_) ==
    LET code_blocks_count == FindAllCount(FenceRe, markdown_content_)
        processed_content == SubBlocks(markdown_content_, 1, url_)
    IN  Frontmatter(url_, timestamp_, code_blocks_count) \o Header(url_)
            \o Strip(processed_content)

post_process_markdown(markdown_content_, url_, timestamp_) ==
    LET code_blocks_count == FindAllCount(FenceRe, markdown_content_)
        processed_content == SubBlocks(markdown_content_, 1, url_)
    IN  Frontmatter(url_, timestamp_, code_blocks_count) \o Header(url_)
            \o processed_content

(***************************************************************************)
(* The callers: the arguments they pass                                    *)
(***************************************************************************)
MaxCodeFragments == 3
MaxJsonFragments == 4

CodeFragments == {<<"a","b">>, <<"a","b","=","1">>, <<"=">>, <<"+">>, <<" ">>, <<"\n">>, <<"r","e","t","u","r","n">>,
                  <<"i","m","p","o","r","t"," ","o","s">>, <<"A","s","y","n","c","W","e","b","C","r","a","w","l","e","r">>}

JsonFragments == {<<"{">>, <<"}">>, <<"[">>, <<"]">>, <<"\"","a","\"",":">>, <<"1">>, <<",","1">>, <<" "," ">>, <<"\n">>,
                  <<" "," ","{">>}

MaxDetectFragments == 2
MaxDocFragments == 3

\* one text for each rule of the detector, the mark of TypeScript, which is
\* no rule of its own, and a line break
DetectFragments == {<<"i","m","p","o","r","t"," ","o","s">>, <<"c","o","n","s","t"," ","x"," ","="," ","1">>, <<"y",":"," ","n","u","m","b","e","r">>, <<"<","d","i","v",">">>,
                    <<"D","R","O","P"," ","T","A","B","L","E"," ","t">>, <<"{","\"","a","\"",":"," ","1","}">>, <<"p","r","i","v","a","t","e"," ","i","n","t">>,
                    <<"s","t","d",":",":">>, <<"p","a","c","k","a","g","e"," ","m","a","i","n">>, <<"f","n"," ","m","a","i","n">>, <<"$","(","p","w","d",")">>,
                    <<"a",":","\n"," ","-"," ","b">>, <<"\n">>}

MaxIdiomFragments == 2

\* texts for the url prior, the TypeScript test and the JSON test
IdiomFragments == {<<"t","r","y",":">>, <<"<","d","i","v",">">>, <<"f","u","n","c","t","i","o","n"," ","f","o","o","(",")"," ","{"," ","r","e","t","u","r","n"," ","1",";"," ","}">>,
                   <<"\n","c","o","n","s","t"," ","x",":"," ","n","u","m","b","e","r"," ","="," ","1",";">>, <<"y",":"," ","n","u","m","b","e","r">>, <<"{","\"","a","\"",":"," ","1","}">>,
                   <<"{","\"","a","-","b","\"",":"," ","1","}">>, <<"[","1",","," ","2","]">>, <<" ">>, <<"\n">>}

PydanticUrl == <<"h","t","t","p","s",":","/","/","a","i",".","p","y","d","a","n","t","i","c",".","d","e","v","/","a","g","e","n","t","s","/">>

Hints == {None, <<>>, <<" "," ">>, <<" ","T","E","X","T"," ">>, <<" ","R","u","s","t"," ">>}

\* opening fences without and with a language, a closing fence, and text
DocFragments == {<<"GRAVE","GRAVE","GRAVE","\n">>, <<"GRAVE","GRAVE","GRAVE","t","e","x","t","\n">>, <<"GRAVE","GRAVE","GRAVE"," ","P","y","t","h","o","n"," ","\n">>, <<"\n","GRAVE","GRAVE","GRAVE">>,
                 <<"i","m","p","o","r","t"," ","o","s">>, <<"\n">>, <<"a","b","=","1"," ">>}

Timestamps == {<<"2","0","2","5","-","0","1","-","0","1","T","0","0",":","0","0",":","0","0">>, <<"2","0","2","5","-","0","6","-","3","0","T","1","2",":","3","4",":","5","6",".","7","8","9","0","1","2">>}

CrawlUrl == <<"h","t","t","p","s",":","/","/","d","o","c","s",".","c","r","a","w","l","4","a","i",".","c","o","m","/","c","o","r","e">>
OtherUrl == <<"h","t","t","p","s",":","/","/","e","x","a","m","p","l","e",".","c","o","m","/","d","o","c","s">>
BareUrl  == <<"e","x","a","m","p","l","e",".","c","o","m","/","d","o","c","s">>

\* DOCS_CACHE = {}
EmptyCache == <<>>

\* what load_documentation_snippets can return: file name -> blocks found
Caches == {EmptyCache,
           [f \in {"markdown_pages/crawl4ai/index.md"} |->
               <<[lang |-> <<"p","y","t","h","o","n">>, code |-> <<"i","m","p","o","r","t"," ","o","s">>]>>]}

\* no second reading of the clock, nothing loaded, no parallel worker
Idle ==
    /\ timestamp2 = None
    /\ DOCS_CACHE = EmptyCache
    /\ workers = <<>>
    /\ NoPipeline

\* code_text is made of at most n of the fragments
CodeTextFrom(fragments, n) ==
    \E k \in 0..n : \E f \in [1..k -> fragments] : code_text = Concat(f)

\* the arguments of a call of process_code_block
Init ==
    /\ pc = "call"
    /\ \/ /\ language = <<"p","y","t","h","o","n">>
          /\ url \in {None, CrawlUrl}
          /\ CodeTextFrom(CodeFragments, MaxCodeFragments)
       \/ /\ language \in {<<"j","a","v","a","s","c","r","i","p","t">>, <<"y","a","m","l">>, <<"t","e","x","t">>}
          /\ url = None
          /\ CodeTextFrom(CodeFragments, MaxCodeFragments)
       \/ /\ language = <<"j","s","o","n">>
          /\ url = None
          /\ CodeTextFrom(JsonFragments, MaxJsonFragments)
    /\ markdown_content = None
    /\ timestamp = None
    /\ ret = None
    /\ ret2 = None
    /\ Idle

\* formatted_code, detected_lang = process_code_block(code, language, url)
Process ==
    /\ pc = "call"
    /\ ret' = process_code_block(code_text, language, url)
    /\ pc' = "done"
    /\ UNCHANGED <<code_text, language, url, markdown_content, timestamp, ret2,
                   timestamp2, DOCS_CACHE, workers, Pipeline>>

\* the returned text is processed once more, with the same language and url
Reprocess ==
    /\ pc = "done"
    /\ ~ret.raised
    /\ ret2' = process_code_block(ret.text, language, url)
    /\ pc' = "again"
    /\ UNCHANGED <<code_text, language, url, markdown_content, timestamp, ret,
                   timestamp2, DOCS_CACHE, workers, Pipeline>>

Next == Process \/ Reprocess

Spec == Init /\ [][Next]_vars

\* the arguments of a call of detect_code_language
InitDetect ==
    /\ pc = "detect"
    /\ CodeTextFrom(DetectFragments, MaxDetectFragments)
    /\ \/ language \in Hints /\ url = None
       \/ language \in {None, <<" ","R","u","s","t"," ">>} /\ url \in {CrawlUrl, OtherUrl}
    /\ markdown_content = None
    /\ timestamp = None
    /\ ret = None
    /\ ret2 = None
    /\ Idle

\* ret = detect_code_language(code_text, language_hint, url)
Detect ==
    /\ pc = "detect"
    /\ ret' = detect_code_language(code_text, language, url)
    /\ pc' = "detected"
    /\ UNCHANGED <<code_text, language, url, markdown_content, timestamp, ret2,
                   timestamp2, DOCS_CACHE, workers, Pipeline>>

NextDetect == Detect

SpecDetect == InitDetect /\ [][NextDetect]_vars

\* the arguments of a call of detect_code_language without an effective hint
InitIdioms ==
    /\ pc = "detect"
    /\ CodeTextFrom(IdiomFragments, MaxIdiomFragments)
    /\ \/ language = None /\ url \in {None, CrawlUrl, PydanticUrl, OtherUrl}
       \/ language = <<"t","e","x","t">> /\ url = None
    /\ markdown_content = None
    /\ timestamp = None
    /\ ret = None
    /\ ret2 = None
    /\ Idle

SpecIdioms == InitIdioms /\ [][NextDetect]_vars

\* the arguments of a call of post_process_markdown
InitDoc ==
    /\ pc = "post"
    /\ \E k \in 0..MaxDocFragments : \E f \in [1..k -> DocFragments] :
          markdown_content = Concat(f)
    /\ url \in {CrawlUrl, BareUrl}
    /\ code_text = None
    /\ language = None
    /\ timestamp = None
    /\ ret = None
    /\ ret2 = None
    /\ timestamp2 = None
    /\ DOCS_CACHE \in Caches
    /\ workers = <<>>
    /\ NoPipeline

\* ret = post_process_markdown(markdown_content, url), the clock read once
PostProcess ==
    /\ pc = "post"
    /\ \E now \in Timestamps :
          /\ timestamp' = now
          /\ ret' = post_process_markdown(markdown_content, url, now)
    /\ pc' = "posted"
    /\ UNCHANGED <<code_text, language, url, markdown_content, ret2,
                   timestamp2, DOCS_CACHE, workers, Pipeline>>

\* the caller runs post_process_markdown once more on the same arguments
PostProcessAgain ==
    /\ pc = "posted"
    /\ \E now \in Timestamps :
          /\ timestamp2' = now
          /\ ret2' = post_process_markdown(markdown_content, url, now)
    /\ pc' = "reposted"
    /\ UNCHANGED <<code_text, language, url, markdown_content, timestamp, ret,
                   DOCS_CACHE, workers, Pipeline>>

NextDoc == PostProcess \/ PostProcessAgain

SpecDoc == InitDoc /\ [][NextDoc]_vars

MaxLineFragments == 3

\* lines of several indentations, blank lines, a JSON value
LineFragments == {<<" ","a","b","=","1","\n">>, <<" "," "," ","r","e","t","u","r","n","1","\n">>, <<"\t","a","b","\n">>, <<"\n">>, <<" "," ","\n">>, <<"a","b">>,
                  <<" "," ","[","1",",","1","]">>}

\* the languages of the paths of process_code_block
LineLanguages == {<<"p","y","t","h","o","n">>, <<"j","a","v","a","s","c","r","i","p","t">>, <<"j","s","x">>, <<"y","a","m","l">>, <<"t","e","x","t">>, <<"j","s","o","n">>}

\* the arguments of a call of process_code_block on a block of lines
InitLines ==
    /\ pc = "call"
    /\ CodeTextFrom(LineFragments, MaxLineFragments)
    /\ language \in LineLanguages
    /\ url = None
    /\ markdown_content = None
    /\ timestamp = None
    /\ ret = None
    /\ ret2 = None
    /\ Idle

NextLines == Process

SpecLines == InitLines /\ [][NextLines]_vars

NumWorkers == 2

\* the calls the workers make: the function and its arguments
Jobs ==
    {[op |-> "detect",  code_text |-> <<"<","d","i","v",">">>,     language |-> None,      url |-> None],
     [op |-> "detect",  code_text |-> <<"t","r","y",":","<","d","i","v",">">>, language |-> None,      url |-> CrawlUrl],
     [op |-> "detect",  code_text |-> <<"i","m","p","o","r","t"," ","o","s">>, language |-> <<" ","R","u","s","t"," ">>, url |-> None],
     [op |-> "process", code_text |-> <<"a","b","=","1","+","a","b">>,   language |-> <<"p","y","t","h","o","n">>, url |-> None],
     [op |-> "process", code_text |-> <<"i","m","p","o","r","t"," ","o","s","\n","A","s","y","n","c","W","e","b","C","r","a","w","l","e","r">>, language |-> <<"p","y","t","h","o","n">>, url |-> CrawlUrl],
     [op |-> "process", code_text |-> <<"[","1",",","1","]">>,     language |-> <<"j","s","o","n">>,   url |-> None]}

\* the workers are about to call; the snippets are not loaded yet
InitWorkers ==
    /\ pc = "serve"
    /\ code_text = None
    /\ language = None
    /\ url = None
    /\ markdown_content = None
    /\ timestamp = None
    /\ ret = None
    /\ ret2 = None
    /\ timestamp2 = None
    /\ DOCS_CACHE = EmptyCache
    /\ workers \in [1..NumWorkers -> {[job |-> j, pc |-> "call", ret |-> None] : j \in Jobs}]
    /\ NoPipeline

\* WorkerResult computed from whatever the snippet cache holds
WorkerResult_ReadsCache(job) ==
    IF job.op = "detect"
    THEN IF DOCS_CACHE # EmptyCache THEN <<"p","y","t","h","o","n">>
         ELSE detect_code_language(job.code_text, job.language, job.url)
    ELSE process_code_block(job.code_text, job.language, job.url)

\* what the call of a worker returns: both functions use their arguments and
\* their local variables only
WorkerResult(job) ==
    IF job.op = "detect"
    THEN detect_code_language(job.code_text, job.language, job.url)
    ELSE process_code_block(job.code_text, job.language, job.url)

\* worker w runs its call of detect_code_language or process_code_block
WorkerCalls(w) ==
    /\ workers[w].pc = "call"
    /\ workers' = [workers EXCEPT ![w].ret = WorkerResult(workers[w].job),
                                  ![w].pc = "done"]
    /\ UNCHANGED <<pc, code_text, language, url, markdown_content, timestamp, ret,
                   ret2, timestamp2, DOCS_CACHE, Pipeline>>

\* worker w goes on to the next block
WorkerTakes(w) ==
    /\ workers[w].pc = "done"
    /\ \E j \in Jobs : workers' = [workers EXCEPT ![w] = [job |-> j, pc |-> "call", ret |-> None]]
    /\ UNCHANGED <<pc, code_text, language, url, markdown_content, timestamp, ret,
                   ret2, timestamp2, DOCS_CACHE, Pipeline>>

\* DOCS_CACHE = load_documentation_snippets(), run by the main program
LoadSnippets ==
    /\ pc = "serve"
    /\ \E c \in Caches : DOCS_CACHE' = c
    /\ pc' = "loaded"
    /\ UNCHANGED <<code_text, language, url, markdown_content, timestamp, ret,
                   ret2, timestamp2, workers, Pipeline>>

NextWorkers ==
    \/ \E w \in 1..NumWorkers : WorkerCalls(w)
    \/ \E w \in 1..NumWorkers : WorkerTakes(w)
    \/ LoadSnippets

SpecWorkers == InitWorkers /\ [][NextWorkers]_vars

(***************************************************************************)
(* Properties of process_code_block                                        *)
(***************************************************************************)
\* the number of lines of text that are not blank
NonBlankCount(text) ==
    Cardinality({k \in DOMAIN SplitLines(text) : ~IsBlank(SplitLines(text)[k])})

HasInk(text) == NonBlankCount(text) > 0

\* the call reaches json.loads and the text parses
JsonParses == /\ language = <<"j","s","o","n">>
              /\ Len(code_text) >= MinLength
              /\ HasInk(code_text)
              /\ json_loads(code_text).ok

\* the call reaches json.loads and json.loads raises
JsonFails == /\ language = <<"j","s","o","n">>
             /\ Len(code_text) >= MinLength
             /\ HasInk(code_text)
             /\ ~json_loads(code_text).ok

\* C8: a block of fewer than five characters is returned unchanged together
\* with the language it was given, whatever the language and the url are.
C8_ShortBlockPassthrough ==
    (pc = "done" /\ Len(code_text) < 5)
        => /\ ~ret.raised
           /\ ret.text = code_text
           /\ ret.language = language

\* a short python block that the formatting below the length test would change
C8_Witness ==
    /\ pc = "done"
    /\ Len(code_text) < 5
    /\ language = <<"p","y","t","h","o","n">>
    /\ ret.text = code_text
    /\ ~FormatBlock(code_text, language, url).raised
    /\ FormatBlock(code_text, language, url).text # code_text

\* C3 as stated: the returned text has as many non-blank lines as the text
\* given, on every path, the JSON path and the crawl4ai python path included.
C3_LineCountPreserved ==
    pc = "done" => /\ ~ret.raised
                   /\ NonBlankCount(ret.text) = NonBlankCount(code_text)

\* C3 amended: the number of non-blank lines is preserved except where JSON
\* text is parsed and serialized again, and except that the python path under
\* a crawl4ai url may add one line, the import it synthesizes.
C3_LineCountAmended ==
    pc = "done" =>
        /\ ~ret.raised
        /\ IF JsonParses
           THEN ret.text = json_dumps(json_loads(code_text).v)
           ELSE IF language = <<"p","y","t","h","o","n">> /\ IsCrawl4ai(url)
                   /\ NonBlankCount(ret.text) # NonBlankCount(code_text)
                THEN /\ NonBlankCount(ret.text) = NonBlankCount(code_text) + 1
                     /\ Contains(ret.text, CrawlImport)
                     /\ ~Contains(code_text, CrawlImport)
                ELSE NonBlankCount(ret.text) = NonBlankCount(code_text)

\* two lines, both rewritten, and still two lines
C3_Witness ==
    /\ pc = "done"
    /\ language \in {<<"p","y","t","h","o","n">>, <<"j","a","v","a","s","c","r","i","p","t">>}
    /\ NonBlankCount(code_text) = 2
    /\ NonBlankCount(ret.text) = 2
    /\ \A k \in 1..2 : SplitLines(ret.text)[k] # SplitLines(code_text)[k]

\* C4 as stated: processing the returned text again, with the same language
\* and url, returns it unchanged.
C4_Idempotent ==
    (pc = "again" /\ Len(code_text) >= MinLength /\ HasInk(code_text))
        => /\ ~ret2.raised
           /\ ret2.text = ret.text

\* C5 as stated: no call raises, and when json.loads fails the original text
\* and the given language are returned unmodified.
C5_IdentityFallback ==
    pc = "done" => /\ ~ret.raised
                   /\ JsonFails => /\ ret.text = code_text
                                   /\ ret.language = language

\* the non-blank lines of a text, each without its indentation
Contents(text) ==
    LET inked == SelectSeq(SplitLines(text), LAMBDA line : ~IsBlank(line))
    IN  [k \in DOMAIN inked |-> LStrip(inked[k])]

\* C5 amended: no call raises; when json.loads fails the given language is
\* returned and the lines of the text keep their content, only indentation
\* and blank lines at the two ends may differ.
C5_CaughtFallback ==
    pc = "done" => /\ ~ret.raised
                   /\ JsonFails => /\ ret.language = language
                                   /\ Contents(ret.text) = Contents(code_text)

\* json.loads failed on an indented text, which comes back without the
\* indentation
C5_Witness ==
    /\ pc = "done"
    /\ JsonFails
    /\ ~ret.raised
    /\ ret.text # code_text

\* C6 as stated: the returned language is the given one when that is neither
\* empty nor "text", and the detector's result otherwise.
C6_FinalLanguage ==
    pc = "done" =>
        /\ ~ret.raised
        /\ ret.language = IF language \notin {<<>>, <<"t","e","x","t">>} THEN language
                          ELSE detect_code_language(code_text, language, url)

JsonEqual(a, b) == a.k = b.k /\ a = b

\* the lines of text are indented by two spaces for each bracket or brace
\* that is open where the line begins
TwoSpaceIndented(text) ==
    \A k \in DOMAIN SplitLines(text) :
        LET line   == SplitLines(text)[k]
            before == SubSeq(text, 1, BreakAt(text, k - 1))
            opened == Cardinality({i \in DOMAIN before : before[i] \in {"[", "{"}})
            closed == Cardinality({i \in DOMAIN before : before[i] \in {"]", "}"}})
            closes == LStrip(line) # <<>> /\ Head(LStrip(line)) \in {"]", "}"}
        IN  Indent(line) = 2 * (opened - closed - (IF closes THEN 1 ELSE 0))

\* the returned text is the 2-space rendering of the value the given text
\* denotes, and the language is json
RoundTrips ==
    /\ ~ret.raised
    /\ ret.language = <<"j","s","o","n">>
    /\ json_loads(ret.text).ok
    /\ JsonEqual(json_loads(ret.text).v, json_loads(code_text).v)
    /\ TwoSpaceIndented(ret.text)
    /\ ret.text = json_dumps(json_loads(ret.text).v)

\* C9 as stated: valid JSON text of any length is returned as the 2-space
\* rendering of the same value, with language json.
C9_JsonRoundTrip ==
    (pc = "done" /\ language = <<"j","s","o","n">> /\ json_loads(code_text).ok)
        => RoundTrips

\* C9 amended: valid JSON text of five characters or more is returned as the
\* 2-space rendering of the same value, with language json; shorter text is
\* returned as it is.
C9_JsonRoundTripFromFive ==
    (pc = "done" /\ language = <<"j","s","o","n">> /\ json_loads(code_text).ok)
        => IF Len(code_text) >= MinLength THEN RoundTrips
           ELSE ~ret.raised /\ ret.text = code_text /\ ret.language = <<"j","s","o","n">>

\* a nested value written on one line comes back on several indented lines
C9_Witness ==
    /\ pc = "done"
    /\ JsonParses
    /\ json_loads(code_text).v.k \in {"list", "dict"}
    /\ json_loads(code_text).v.v # <<>>
    /\ Len(SplitLines(code_text)) = 1
    /\ Len(SplitLines(ret.text)) >= 3

\* text without the blank lines at its two ends and without the indentation
\* its non-blank lines share; blank lines in between become empty
IndentOnly(text) ==
    LET lines == SplitLines(text)
        inked == {k \in DOMAIN lines : ~IsBlank(lines[k])}
        first == SetMin(inked)
        last  == SetMax(inked)
        least == SetMin({Indent(lines[k]) : k \in inked})
    IN  JoinLines([k \in 1..(last - first + 1) |->
                      IF (first + k - 1) \in inked
                      THEN SubSeq(lines[first + k - 1], least + 1,
                                  Len(lines[first + k - 1]))
                      ELSE <<>>])

\* C10 as stated: json text of five characters or more that does not parse is
\* returned with indentation-only formatting and language json, no error.
C10_JsonFallback ==
    (pc = "done" /\ language = <<"j","s","o","n">> /\ Len(code_text) >= 5
                 /\ ~json_loads(code_text).ok)
        => /\ ~ret.raised
           /\ ret.language = <<"j","s","o","n">>
           /\ ret.text = IF HasInk(code_text) THEN IndentOnly(code_text) ELSE <<>>

\* C10 amended: the same for text that has a non-blank line; text of blank
\* lines only is returned as it is.
C10_JsonFallbackInked ==
    (pc = "done" /\ language = <<"j","s","o","n">> /\ Len(code_text) >= 5
                 /\ ~json_loads(code_text).ok)
        => /\ ~ret.raised
           /\ ret.language = <<"j","s","o","n">>
           /\ ret.text = IF HasInk(code_text) THEN IndentOnly(code_text)
                         ELSE code_text

\* invalid JSON on two lines of different indentation loses the shared part
C10_Witness ==
    /\ pc = "done"
    /\ JsonFails
    /\ NonBlankCount(code_text) = 2
    /\ SetMin({Indent(line) : line \in {SplitLines(code_text)[k] : k \in 1..2}}) > 0
    /\ \E k \in 1..2 : Indent(SplitLines(ret.text)[k]) > 0
    /\ \E k \in 1..2 : Indent(SplitLines(ret.text)[k]) = 0
    /\ ret.language = <<"j","s","o","n">>

(***************************************************************************)
(* Properties of detect_code_language                                      *)
(***************************************************************************)
\* the hint is given, is not blank, and is not "text" in any case
EffectiveHint ==
    /\ language # None
    /\ Strip(language) # <<>>
    /\ StrLower(Strip(language)) # <<"t","e","x","t">>

\* C1: with a hint that is not empty after trimming and is not "text" in any
\* case, the detector returns the trimmed lower-cased hint, whatever the text
\* and the url are.
C1_HintPrecedence ==
    (pc = "detected" /\ EffectiveHint) => ret = StrLower(Strip(language))

\* the hint wins over a text that is Python on a url of the allow-list
C1_Witness ==
    /\ pc = "detected"
    /\ language = <<" ","R","u","s","t"," ">>
    /\ UrlPrior(code_text, url)
    /\ PatternDetect(code_text) = <<"p","y","t","h","o","n">>
    /\ ret = <<"r","u","s","t">>

\* the rules in the order of the claim, each with the tag it gives and
\* whether its pattern matches t
Rules(t) == <<
    [tag |-> <<"p","y","t","h","o","n">>,  hit |-> Search(PythonRe, t, IgnoreCase)],
    [tag |-> IF Search(TypeScriptRe, t, NoFlags) THEN <<"t","y","p","e","s","c","r","i","p","t">>
             ELSE <<"j","a","v","a","s","c","r","i","p","t">>,
                         hit |-> Search(JavaScriptRe, t, NoFlags)],
    [tag |-> <<"h","t","m","l">>,    hit |-> Search(HtmlRe, t, IgnoreCase)],
    [tag |-> <<"s","q","l">>,     hit |-> Search(SqlRe, t, IgnoreCase)],
    [tag |-> <<"j","s","o","n">>,    hit |-> Search(JsonOpenRe, t, NoFlags)
                                 /\ Search(JsonCloseRe, t, NoFlags)],
    [tag |-> <<"j","a","v","a">>,    hit |-> Search(JavaRe, t, NoFlags)],
    [tag |-> <<"c","p","p">>,     hit |-> Search(CppRe, t, NoFlags)],
    [tag |-> <<"g","o">>,      hit |-> Search(GoRe, t, NoFlags)],
    [tag |-> <<"r","u","s","t">>,    hit |-> Search(RustRe, t, NoFlags)],
    [tag |-> <<"b","a","s","h">>,    hit |-> Search(BashRe, t, NoFlags)],
    [tag |-> <<"y","a","m","l">>,    hit |-> Search(YamlRe, t, MultiLine)]>>

\* the rules of the table that match
Hits(rules) == {k \in DOMAIN rules : rules[k].hit}

FirstMatch(t) ==
    LET rules == Rules(t)
        hits  == Hits(rules)
    IN  IF hits = {} THEN <<"t","e","x","t">> ELSE rules[SetMin(hits)].tag

DetectionTags == {<<"p","y","t","h","o","n">>, <<"j","a","v","a","s","c","r","i","p","t">>, <<"t","y","p","e","s","c","r","i","p","t">>, <<"h","t","m","l">>, <<"s","q","l">>,
                  <<"j","s","o","n">>, <<"j","a","v","a">>, <<"c","p","p">>, <<"g","o">>, <<"r","u","s","t">>, <<"b","a","s","h">>, <<"y","a","m","l">>,
                  <<"t","e","x","t">>}

\* C2: without an effective hint and without the url prior, the detector
\* returns the tag of the first rule, in the fixed order, whose pattern
\* matches, and "text" when none matches: one of thirteen tags.
C2_FirstMatchWins ==
    (pc = "detected" /\ ~EffectiveHint /\ ~UrlPrior(code_text, url))
        => /\ ret = FirstMatch(code_text)
           /\ ret \in DetectionTags
           /\ Cardinality(DetectionTags) = 13

\* a later rule matches as well, neither is the python rule, and the first wins
C2_Witness ==
    /\ pc = "detected"
    /\ ~EffectiveHint
    /\ ~UrlPrior(code_text, url)
    /\ LET rules == Rules(code_text)
           hits  == Hits(rules)
       IN  /\ Cardinality(hits) >= 2
           /\ SetMin(hits) > 1
           /\ ret = rules[SetMin(hits)].tag

(***************************************************************************)
(* Properties of post_process_markdown                                     *)
(***************************************************************************)
RECURSIVE DetectedBlocks(_, _, _)
\* the document from position i on with every block rewritten as C7 reads:
\* a fence without a language or with "text" gets the detector's language,
\* and the body is formatted for the language of the fence
DetectedBlocks(s, i, url_) ==
    LET starts == {j \in i..Len(s) : BlockAt(s, j) # {}}
        from   == SetMin(starts)
        match  == Only(BlockAt(s, from))
        lang   == StrLower(Strip(match.lang))
        final  == IF lang \in {<<>>, <<"t","e","x","t">>}
                  THEN detect_code_language(match.code, lang, url_)
                  ELSE lang
    IN  IF starts = {} THEN SubSeq(s, i, Len(s))
        ELSE SubSeq(s, i, from - 1)
                 \o <<"GRAVE","GRAVE","GRAVE">> \o final \o <<"\n">>
                 \o process_code_block(match.code, final, url_).text
                 \o <<"\n","GRAVE","GRAVE","GRAVE">>
                 \o DetectedBlocks(s, match.to, url_)

\* C7 as stated: every block whose fence has no language or the language
\* "text" is written with the language detect_code_language gives for its
\* body, and its body is formatted for that language.
C7_DetectorRunsOnBlocks ==
    pc \in {"posted", "reposted"} =>
        ret = Frontmatter(url, timestamp, FindAllCount(FenceRe, markdown_content))
                  \o Header(url) \o DetectedBlocks(markdown_content, 1, url)

(***************************************************************************)
(* Properties of the url prior and of single rules of the detector         *)
(***************************************************************************)
\* the url contains a domain of the allow-list
AllowListed == url # None /\ \E d \in AllowDomains : Contains(url, d)

\* the text matches the generic scripting pattern
ScriptingText == Search(UrlPriorRe, code_text, NoFlags)

\* C11: without an effective hint, a scripting text under a url of the
\* allow-list is python whatever the battery says; under a url that is absent
\* or outside the allow-list the result is that of the battery.
C11_UrlPriorFirst ==
    (pc = "detected" /\ ~EffectiveHint)
        => /\ (AllowListed /\ ScriptingText) => ret = <<"p","y","t","h","o","n">>
           /\ ~AllowListed => ret = FirstMatch(code_text)

\* the battery alone says html, the prior says python
C11_Witness ==
    /\ pc = "detected"
    /\ ~EffectiveHint
    /\ AllowListed
    /\ ScriptingText
    /\ FirstMatch(code_text) = <<"h","t","m","l">>
    /\ ret = <<"p","y","t","h","o","n">>

\* neither the hint, nor the url prior, nor the python rule decides
PastPython ==
    /\ ~EffectiveHint
    /\ ~(AllowListed /\ ScriptingText)
    /\ ~Search(PythonRe, code_text, IgnoreCase)

\* C12: past the python rule, a text of the JavaScript family is typescript
\* exactly when it shows a type-annotation idiom and javascript otherwise;
\* a text outside the JavaScript family is never typescript.
C12_TypeScriptRefinesJavaScript ==
    (pc = "detected" /\ PastPython)
        => IF Search(JavaScriptRe, code_text, NoFlags)
           THEN ret = IF Search(TypeScriptRe, code_text, NoFlags)
                      THEN <<"t","y","p","e","s","c","r","i","p","t">> ELSE <<"j","a","v","a","s","c","r","i","p","t">>
           ELSE ret # <<"t","y","p","e","s","c","r","i","p","t">>

\* the function of the example with the typed const on a line added to it
C12_Witness ==
    /\ pc = "detected"
    /\ PastPython
    /\ code_text = <<"f","u","n","c","t","i","o","n"," ","f","o","o","(",")"," ","{"," ","r","e","t","u","r","n"," ","1",";"," ","}","\n","c","o","n","s","t"," ","x",":"," ","n","u","m","b","e","r"," ","="," ","1",";">>
    /\ ret = <<"t","y","p","e","s","c","r","i","p","t">>

\* the text, surrounding whitespace ignored, opens an object with a quoted
\* key and a colon; wordKey asks for a key of one or more word characters
ObjectOpening(t, wordKey) ==
    LET b == LStrip(t)
        c == LStrip(SubSeq(b, 2, Len(b)))
        q == SetMin({i \in 2..Len(c) : c[i] = "\""})
        key   == SubSeq(c, 2, q - 1)
        after == LStrip(SubSeq(c, q + 1, Len(c)))
    IN  /\ b # <<>> /\ b[1] = "{"
        /\ c # <<>> /\ c[1] = "\""
        /\ \E i \in 2..Len(c) : c[i] = "\""
        /\ wordKey => key # <<>> /\ \A i \in DOMAIN key : key[i] \in WordChars
        /\ after # <<>> /\ after[1] = ":"

\* the text, surrounding whitespace ignored, ends with a closing brace
ClosingBrace(t) == RStrip(t) # <<>> /\ RStrip(t)[Len(RStrip(t))] = "}"

\* the text, surrounding whitespace ignored, begins like a JSON array
ArrayText(t) == LStrip(t) # <<>> /\ LStrip(t)[1] = "["

\* no rule in front of the JSON rule decides
PastSql ==
    /\ PastPython
    /\ ~Search(JavaScriptRe, code_text, NoFlags)
    /\ ~Search(HtmlRe, code_text, IgnoreCase)
    /\ ~Search(SqlRe, code_text, IgnoreCase)

\* what C13 says of a text, for one reading of "a quoted key"
JsonRule(wordKey) ==
    /\ ret = <<"j","s","o","n">> <=> (ObjectOpening(code_text, wordKey) /\ ClosingBrace(code_text))
    /\ ArrayText(code_text) =>
          /\ ret # <<"j","s","o","n">>
          /\ Hits(Rules(code_text)) = {} => ret = <<"t","e","x","t">>

\* C13 as stated: past the sql rule the result is json exactly when the text
\* opens an object with a quoted key and a colon and ends with a closing
\* brace; an array is never json, and is text when no rule matches it.
C13_JsonObjectsOnly == (pc = "detected" /\ PastSql) => JsonRule(FALSE)

\* C13 amended: the same, for a quoted key of one or more word characters.
C13_JsonWordKeyObjectsOnly == (pc = "detected" /\ PastSql) => JsonRule(TRUE)

\* an object followed by a line break is json
C13_Witness ==
    /\ pc = "detected"
    /\ PastSql
    /\ code_text = <<"{","\"","a","\"",":"," ","1","}","\n">>
    /\ ret = <<"j","s","o","n">>

(***************************************************************************)
(* Properties of the assembled document                                    *)
(***************************************************************************)
RECURSIVE GapsFrom(_, _)
\* the parts of s from position i on that lie outside every well-formed
\* fenced block, in their order: one before each block and one after the last
GapsFrom(s, i) ==
    LET starts == {j \in i..Len(s) : BlockAt(s, j) # {}}
        from   == SetMin(starts)
    IN  IF starts = {} THEN <<SubSeq(s, i, Len(s))>>
        ELSE <<SubSeq(s, i, from - 1)>> \o GapsFrom(s, Only(BlockAt(s, from)).to)

\* the length of the shortest fenced block: two fences and two line breaks
MinBlock == 2 * Len(CloseFence)

RECURSIVE Fits(_, _, _, _)
\* the gaps k, k+1, ... lie in out from position pos on, in their order, a
\* block between two neighbours, the last one at the end of out
Fits(gaps, k, out, pos) ==
    LET g == gaps[k]
    IN  IF k = Len(gaps)
        THEN /\ pos <= Len(out) - Len(g) + 1
             /\ SubSeq(out, Len(out) - Len(g) + 1, Len(out)) = g
        ELSE \E p \in pos..(Len(out) + 1) :
                /\ k = 1 => p = 1
                /\ SubSeq(out, p, p + Len(g) - 1) = g
                /\ Fits(gaps, k + 1, out, p + Len(g) + MinBlock)

\* what the document holds after the metadata and the title
Body ==
    LET head == Frontmatter(url, timestamp, FindAllCount(FenceRe, markdown_content))
                    \o Header(url)
    IN  SubSeq(ret, Len(head) + 1, Len(ret))

\* C14: after the header the document holds every part of the input that is
\* outside a well-formed fenced block, unchanged and in the same order; an
\* input without a well-formed block is reproduced character for character.
C14_NonBlockTextVerbatim ==
    pc \in {"posted", "reposted"} =>
        LET gaps == GapsFrom(markdown_content, 1)
        IN  IF Len(gaps) = 1 THEN Body = markdown_content
            ELSE Fits(gaps, 1, Body, 1)

\* a well-formed block with an unclosed fence behind it
C14_Witness ==
    /\ pc = "posted"
    /\ markdown_content = <<"GRAVE","GRAVE","GRAVE","\n","\n","GRAVE","GRAVE","GRAVE","GRAVE","GRAVE","GRAVE","t","e","x","t","\n">>
    /\ GapsFrom(markdown_content, 1) = << <<>>, <<"GRAVE","GRAVE","GRAVE","t","e","x","t","\n">> >>
    /\ Body = <<"GRAVE","GRAVE","GRAVE","t","e","x","t","\n","\n","GRAVE","GRAVE","GRAVE","GRAVE","GRAVE","GRAVE","t","e","x","t","\n">>

\* the line break and the key in front of the clock reading
DateKey == <<"\n","d","a","t","e","_","p","r","o","c","e","s","s","e","d",":"," ">>

\* the document without the line of the metadata that holds the clock reading
WithoutDate(doc) ==
    LET at  == SetMin({i \in 1..Len(doc) : LitAt(DateKey, doc, i, NoFlags)})
        end == SetMin({i \in (at + 1)..Len(doc) : doc[i] = "\n"})
    IN  SubSeq(doc, 1, at - 1) \o SubSeq(doc, end, Len(doc))

\* C15 as stated: two invocations with the same markdown and the same url
\* return identical strings.
C15_SameArgumentsSameDocument == pc = "reposted" => ret2 = ret

\* C15 amended: two invocations with the same markdown and the same url return
\* documents that are identical but for the date_processed line, and identical
\* when the clock reads the same; no invocation changes its arguments or
\* DOCS_CACHE.
C15_SameDocumentButForClock ==
    /\ [](pc = "reposted" =>
             /\ WithoutDate(ret2) = WithoutDate(ret)
             /\ timestamp2 = timestamp => ret2 = ret)
    /\ [][UNCHANGED <<markdown_content, url, DOCS_CACHE>>]_vars

\* the clock moved between two invocations on a document with a block
C15_Witness ==
    /\ pc = "reposted"
    /\ timestamp2 # timestamp
    /\ BlockAt(markdown_content, 1) # {}
    /\ DOCS_CACHE # EmptyCache
    /\ ret2 # ret
    /\ WithoutDate(ret2) = WithoutDate(ret)

RECURSIVE BlockCount(_, _)
\* the number of well-formed fenced blocks of s from position i on
BlockCount(s, i) ==
    LET starts == {j \in i..Len(s) : BlockAt(s, j) # {}}
    IN  IF starts = {} THEN 0
        ELSE 1 + BlockCount(s, Only(BlockAt(s, SetMin(starts))).to)

\* C17 as stated: the metadata is written for the number of well-formed
\* fenced blocks of the document: contains_code is True exactly when there is
\* one, code_blocks_count is present exactly then and equals that number.
C17_CountsWellFormedBlocks ==
    pc \in {"posted", "reposted"} =>
        LET head == Frontmatter(url, timestamp, BlockCount(markdown_content, 1))
        IN  SubSeq(ret, 1, Len(head)) = head

(***************************************************************************)
(* Properties of the spacing steps and of the import synthesis             *)
(***************************************************************************)
\* the operators of two characters that the spacing step is to leave alone
CompoundOperators ==
    {<<"=","=">>, <<"!","=">>, <<"<","=">>, <<">","=">>, <<"+","=">>, <<"-","=">>, <<"*","=">>, <<"/","=">>,
     <<"+","+">>, <<"-","-">>, <<"*","*">>, <<"/","/">>, <<"-",">">>, <<"=",">">>}

\* the number of places of s where w stands
Occurrences(w, s) == Cardinality({i \in 1..Len(s) : LitAt(w, s, i, NoFlags)})

\* the call takes the python path or the javascript path
SpacingPath ==
    /\ language \in {<<"p","y","t","h","o","n">>, <<"j","a","v","a","s","c","r","i","p","t">>}
    /\ Len(code_text) >= MinLength
    /\ TrimmedLines(code_text) # <<>>

\* C18 as stated: on the python and javascript paths every occurrence of a
\* comparison, an augmented assignment or a two-character operator of the
\* input is the same character sequence in the output.
C18_CompoundOperatorsUntouched ==
    (pc = "done" /\ SpacingPath) =>
        \A op \in CompoundOperators :
            Occurrences(op, ret.text) >= Occurrences(op, code_text)

\* s is one word: word characters only
IsWord(s) == s # <<>> /\ \A i \in DOMAIN s : s[i] \in WordChars

\* s begins with one of the keywords
BeginsWithKeyword(s, keywords) ==
    \E k \in DOMAIN keywords :
        /\ Len(keywords[k]) <= Len(s)
        /\ SubSeq(s, 1, Len(keywords[k])) = keywords[k]

\* C19 as stated: an identifier that merely contains the letters of a
\* keyword, and does not begin with one, is the same in the output as in the
\* input.
C19_KeywordInsideIdentifier ==
    (/\ pc = "done"
     /\ SpacingPath
     /\ IsWord(code_text)
     /\ ~BeginsWithKeyword(code_text, IF language = <<"p","y","t","h","o","n">> THEN PyKeywords
                                      ELSE JsKeywords))
        => ret.text = code_text

\* C20 as stated: on the python path with a crawl4ai url, a block that
\* mentions AsyncWebCrawler holds the line that imports it after the call:
\* it was there, or it is inserted before the first import line, or at the
\* top when there is none.
C20_ImportSynthesized ==
    (/\ pc = "done"
     /\ language = <<"p","y","t","h","o","n">>
     /\ url # None /\ IsCrawl4ai(url)
     /\ Len(code_text) >= MinLength
     /\ TrimmedLines(code_text) # <<>>
     /\ Contains(ret.text, <<"A","s","y","n","c","W","e","b","C","r","a","w","l","e","r">>))
        => Contains(ret.text, <<"f","r","o","m"," ","c","r","a","w","l","4","a","i"," ","i","m","p","o","r","t"," ","A","s","y","n","c","W","e","b","C","r","a","w","l","e","r">>)

(***************************************************************************)
(* Properties of parallel calls                                            *)
(***************************************************************************)
\* what the call returns when it runs alone: the value of SpecDetect's or
\* Spec's single call on the same arguments
Alone(job) ==
    IF job.op = "detect"
    THEN detect_code_language(job.code_text, job.language, job.url)
    ELSE process_code_block(job.code_text, job.language, job.url)

NoCore ==
    /\ pc = "idle"
    /\ code_text = None
    /\ language = None
    /\ url = None
    /\ markdown_content = None
    /\ timestamp = None
    /\ ret = None
    /\ ret2 = None
    /\ timestamp2 = None
    /\ DOCS_CACHE = EmptyCache
    /\ workers = <<>>

RECURSIVE Remove(_, _)
\* s.replace(w, '')
Remove(s, w) ==
    LET at == {i \in 1..Len(s) : LitAt(w, s, i, NoFlags)}
    IN  IF at = {} THEN s
        ELSE SubSeq(s, 1, SetMin(at) - 1)
                 \o Remove(SubSeq(s, SetMin(at) + Len(w), Len(s)), w)

\* url.replace('https://', '').replace('http://', '')
NoScheme(url_) == Remove(Remove(url_, <<"h","t","t","p","s",":","/","/">>), <<"h","t","t","p",":","/","/">>)

HTML_DIR == <<"s","c","r","a","p","e","d","_","p","a","g","e","s">>

\* os.path.join(output_dir, f"{domain}_sitemap") of crawl_sitemap
DomainOutputDir(sitemap_url, output_dir) ==
    output_dir \o <<"/">> \o Split(NoScheme(sitemap_url), "/")[1] \o <<"_","s","i","t","e","m","a","p">>

\* how a call of crawl_sitemap can end: the sitemap gave no url, the urls were
\* crawled, the crawler could not be started
CrawlOutcomes == {"no urls", "crawled", "raised"}

\* what crawl_sitemap returns
crawl_sitemap(sitemap_url, output_dir, outcome) ==
    IF outcome = "crawled" THEN DomainOutputDir(sitemap_url, output_dir) ELSE None

\* what agent.main returns: it keeps the directory in a local variable, logs
\* it and ends without a return statement
agent_main(sitemap_url, outcome) ==
    LET output_dir == crawl_sitemap(sitemap_url, HTML_DIR, outcome)
    IN  None

\* the browsers are there after check_playwright_browsers and, when they are
\* missing, install_playwright_browsers
BrowsersReady(browsers) == browsers \in {"installed", "installable"}

\* what integrated_workflow.run_scraper returns
run_scraper(sitemap_url, browsers, outcome) ==
    IF ~BrowsersReady(browsers) THEN None
    ELSE IF outcome = "raised" THEN None
    ELSE agent_main(sitemap_url, outcome)

\* run_converter was not called
NotCalled == <<"not called">>

\* crawl_sitemap was not called
NotRun == <<"not run">>

Sitemaps == {<<"h","t","t","p","s",":","/","/","d","o","c","s",".","c","r","a","w","l","4","a","i",".","c","o","m","/","s","i","t","e","m","a","p",".","x","m","l">>, <<"h","t","t","p",":","/","/","e","x","a","m","p","l","e",".","c","o","m","/","s","i","t","e","m","a","p",".","x","m","l">>}

\* the arguments of the command line and the state of the machine
InitWorkflow ==
    /\ NoCore
    /\ files = <<>>
    /\ converter = <<>>
    /\ crawler = <<>>
    /\ \E sitemap \in Sitemaps, skip_scrape, skip_convert, install \in BOOLEAN,
          browsers \in {"installed", "installable", "broken"} :
          workflow = [pc |-> "args", sitemap |-> sitemap,
                      skip_scrape |-> skip_scrape, skip_convert |-> skip_convert,
                      install_playwright |-> install, browsers |-> browsers,
                      crawled |-> NotRun, output_dir |-> None,
                      reported |-> FALSE, asked |-> FALSE,
                      converter_input |-> NotCalled]

\* args = parse_args() ... output_dir = None
WorkflowStart ==
    /\ workflow.pc = "args"
    /\ workflow' = [workflow EXCEPT
           !.pc = "scrape",
           !.browsers = IF workflow.install_playwright /\ @ = "installable"
                        THEN "installed" ELSE @]
    /\ UNCHANGED <<Core, files, converter, crawler>>

\* if not args.skip_scrape: the step is left out
SkipScrape ==
    /\ workflow.pc = "scrape"
    /\ workflow.skip_scrape
    /\ workflow' = [workflow EXCEPT !.pc = "convert"]
    /\ UNCHANGED <<Core, files, converter, crawler>>

\* output_dir = await run_scraper(sitemap_url)
RunScraper ==
    /\ workflow.pc = "scrape"
    /\ ~workflow.skip_scrape
    /\ \E outcome \in CrawlOutcomes :
          workflow' = [workflow EXCEPT
              !.pc = "scraped",
              !.browsers = IF @ = "installable" THEN "installed" ELSE @,
              !.crawled = IF BrowsersReady(workflow.browsers)
                          THEN crawl_sitemap(workflow.sitemap, HTML_DIR, outcome)
                          ELSE NotRun,
              !.output_dir = run_scraper(workflow.sitemap, workflow.browsers, outcome)]
    /\ UNCHANGED <<Core, files, converter, crawler>>

\* if not output_dir: the failure is logged and the user is asked
ScrapeChecked ==
    /\ workflow.pc = "scraped"
    /\ IF workflow.output_dir = None
       THEN IF ~workflow.skip_convert
            THEN \E proceed \in {<<"y">>, <<"Y">>, <<"n">>} :
                    workflow' = [workflow EXCEPT
                        !.reported = TRUE,
                        !.asked = TRUE,
                        !.pc = IF StrLower(proceed) # <<"y">> THEN "returned"
                               ELSE "convert"]
            ELSE workflow' = [workflow EXCEPT !.reported = TRUE, !.pc = "convert"]
       ELSE workflow' = [workflow EXCEPT !.pc = "convert"]
    /\ UNCHANGED <<Core, files, converter, crawler>>

\* if not args.skip_convert: run_converter(output_dir)
RunConverter ==
    /\ workflow.pc = "convert"
    /\ workflow' = [workflow EXCEPT
           !.pc = "completed",
           !.converter_input = IF ~workflow.skip_convert THEN workflow.output_dir
                               ELSE NotCalled]
    /\ UNCHANGED <<Core, files, converter, crawler>>

NextWorkflow ==
    \/ WorkflowStart
    \/ SkipScrape
    \/ RunScraper
    \/ ScrapeChecked
    \/ RunConverter

SpecWorkflow == InitWorkflow /\ [][NextWorkflow]_vars

\* scraping was run and crawl_sitemap returned its output directory
ScrapeSucceeded ==
    /\ workflow.pc \in {"scraped", "convert", "completed", "returned"}
    /\ ~workflow.skip_scrape
    /\ workflow.crawled \notin {NotRun, None}

\* C25 as stated: when scraping is not skipped and crawl_sitemap returns its
\* output directory, run_scraper returns that directory, no failure is
\* reported, the user is not asked, and run_converter is called on exactly
\* that directory.
C25_ScrapeHandedToConverter ==
    ScrapeSucceeded =>
        /\ workflow.output_dir = workflow.crawled
        /\ ~workflow.reported
        /\ ~workflow.asked
        /\ workflow.pc # "returned"
        /\ (workflow.pc = "completed" /\ ~workflow.skip_convert)
              => workflow.converter_input = workflow.crawled

(***************************************************************************)
(* The scraper: crawl_sitemap and its scrape_page tasks                    *)
(***************************************************************************)
MaxUrls == 6

batch_size == 5

\* the page urls a sitemap can list, in the order of the sitemap
PageUrls == <<<<"h","t","t","p","s",":","/","/","a",".","c","o","m","/","b","/","c">>, <<"h","t","t","p","s",":","/","/","a",".","c","o","m","/","b","_","c">>, <<"h","t","t","p","s",":","/","/","a",".","c","o","m","/">>,
              <<"h","t","t","p",":","/","/","a",".","c","o","m","/","d","?","e">>, <<"h","t","t","p","s",":","/","/","a",".","c","o","m","/","f">>, <<"h","t","t","p","s",":","/","/","a",".","c","o","m","/","g">>,
              <<"h","t","t","p","s",":","/","/","a",".","c","o","m","/","h">>, <<"h","t","t","p","s",":","/","/","a",".","c","o","m","/","i">>>>

SitemapUrl == <<"h","t","t","p","s",":","/","/","a",".","c","o","m","/","s","i","t","e","m","a","p",".","x","m","l">>

\* the characters scrape_page replaces by an underscore in a file name
Unsafe == {"/", ":", "?", "&", "."}

\* the file name scrape_page makes of a url; hash(url) of the fallback is
\* written as the url itself, one value per url
safe_filename(url_) ==
    LET bare == NoScheme(url_)
        name == [k \in DOMAIN bare |-> IF bare[k] \in Unsafe THEN "_" ELSE bare[k]]
    IN  IF name # <<>> THEN name ELSE <<"p","a","g","e","_">> \o <<url_>>

\* os.path.join(output_dir, f"{safe_filename}.csv")
csv_file_path(url_, output_dir) == output_dir \o <<"/">> \o safe_filename(url_) \o <<".","c","s","v">>

\* what crawler.arun fetched for a url
Html(url_) == <<"html of", url_>>

\* the row csv.DictWriter writes below the header
CsvFile(url_, html_content) == [kind |-> "page", url |-> url_, html_content |-> html_content]

\* the file system with the file at path written anew
Written(fs, path, content) ==
    [q \in DOMAIN fs \cup {path} |-> IF q = path THEN content ELSE fs[q]]

\* the batch that goes on to the whole rest of the list
Batch_Rest(urls, i) == (i + 1)..Len(urls)

\* urls[i:i+batch_size], as the positions of the entries
Batch(urls, i) == (i + 1)..(IF i + batch_size < Len(urls) THEN i + batch_size ELSE Len(urls))

\* how a scrape_page task can end: the page is saved, result.success is
\* false, an exception is raised and logged
PageOutcomes == {"saved", "failed", "raised"}

\* crawl_sitemap is called on a sitemap of at most MaxUrls pages
InitCrawler ==
    /\ NoCore
    /\ workflow = <<>>
    /\ converter = <<>>
    /\ files = <<>>
    /\ \E n \in 0..MaxUrls :
          crawler = [pc |-> "fetch", urls |-> SubSeq(PageUrls, 1, n), i |-> 0,
                     task |-> [k \in 1..n |-> "pending"],
                     starts |-> [k \in 1..n |-> 0],
                     returned |-> NotRun]

\* urls = fetch_sitemap_urls(sitemap_url); if not urls: return
SitemapFetched ==
    /\ crawler.pc = "fetch"
    /\ crawler' = IF crawler.urls = <<>>
                  THEN [crawler EXCEPT !.pc = "ended", !.returned = None]
                  ELSE [crawler EXCEPT !.pc = "loop"]
    /\ UNCHANGED <<Core, workflow, files, converter>>

\* tasks = [scrape_page(url, ...) for url in batch]; asyncio.gather(*tasks)
BatchStarted ==
    /\ crawler.pc = "loop"
    /\ crawler.i < Len(crawler.urls)
    /\ crawler' = [crawler EXCEPT
           !.pc = "gather",
           !.task = [k \in DOMAIN @ |->
                        IF k \in Batch(crawler.urls, crawler.i) THEN "running" ELSE @[k]],
           !.starts = [k \in DOMAIN @ |->
                        IF k \in Batch(crawler.urls, crawler.i) THEN @[k] + 1 ELSE @[k]]]
    /\ UNCHANGED <<Core, workflow, files, converter>>

\* scrape_page from the return of crawler.arun to its end
PageCrawled(k) ==
    /\ crawler.pc = "gather"
    /\ crawler.task[k] = "running"
    /\ \E outcome \in PageOutcomes :
          /\ crawler' = [crawler EXCEPT !.task[k] = outcome]
          /\ files' = IF outcome = "saved"
                      THEN Written(files,
                                   csv_file_path(crawler.urls[k],
                                                 DomainOutputDir(SitemapUrl, HTML_DIR)),
                                   CsvFile(crawler.urls[k], Html(crawler.urls[k])))
                      ELSE files
    /\ UNCHANGED <<Core, workflow, converter>>

\* await asyncio.gather(*tasks) returns: every task of the batch has ended
BatchGathered ==
    /\ crawler.pc = "gather"
    /\ \A k \in DOMAIN crawler.task : crawler.task[k] # "running"
    /\ crawler' = [crawler EXCEPT !.pc = "loop", !.i = @ + batch_size]
    /\ UNCHANGED <<Core, workflow, files, converter>>

\* the loop is over: return domain_output_dir
CrawlEnded ==
    /\ crawler.pc = "loop"
    /\ crawler.i >= Len(crawler.urls)
    /\ crawler' = [crawler EXCEPT !.pc = "ended",
                                  !.returned = DomainOutputDir(SitemapUrl, HTML_DIR)]
    /\ UNCHANGED <<Core, workflow, files, converter>>

NextCrawler ==
    \/ SitemapFetched
    \/ BatchStarted
    \/ \E k \in DOMAIN crawler.task : PageCrawled(k)
    \/ BatchGathered
    \/ CrawlEnded

SpecCrawler == InitCrawler /\ [][NextCrawler]_vars

\* the number of the batch of the k-th entry of the list
BatchOf(k) == (k - 1) \div 5

\* C29: every entry of the url list is started once, at most 5 tasks are in
\* flight, no task of a batch is started before every task of the batches in
\* front of it has ended, and when crawl_sitemap ends every entry has been
\* started and has ended, whatever failed.
C29_BoundedBatches ==
    LET task    == crawler.task
        running == {k \in DOMAIN task : task[k] = "running"}
    IN  /\ Cardinality(running) <= 5
        /\ \A k \in DOMAIN task : crawler.starts[k] <= 1
        /\ \A j, k \in DOMAIN task :
              (BatchOf(j) < BatchOf(k) /\ task[k] # "pending") => task[j] \in PageOutcomes
        /\ crawler.pc = "ended" =>
              \A k \in DOMAIN task : crawler.starts[k] = 1 /\ task[k] \in PageOutcomes

\* a sitemap of two batches; pages of the first batch failed, the page of the
\* second batch is saved
C29_Witness ==
    /\ crawler.pc = "ended"
    /\ Len(crawler.urls) = 6
    /\ crawler.task[1] = "raised"
    /\ crawler.task[2] = "failed"
    /\ crawler.task[6] = "saved"

\* C30 as stated: two distinct urls of the sitemap are written to different
\* paths, and when crawl_sitemap has ended every url that was crawled with
\* success has its CSV file, holding that url and its html.
C30_OwnCsvFile ==
    LET dir  == DomainOutputDir(SitemapUrl, HTML_DIR)
        urls == crawler.urls
    IN  /\ \A j, k \in DOMAIN urls :
              urls[j] # urls[k] => csv_file_path(urls[j], dir) # csv_file_path(urls[k], dir)
        /\ crawler.pc = "ended" =>
              \A k \in DOMAIN urls :
                  crawler.task[k] = "saved" =>
                      /\ csv_file_path(urls[k], dir) \in DOMAIN files
                      /\ files[csv_file_path(urls[k], dir)] = CsvFile(urls[k], Html(urls[k]))

(***************************************************************************)
(* The converter: process_csv_files and convert_html_to_markdown           *)
(***************************************************************************)
MaxCsvFiles == 2

MaxRuns == 2

CSV_DIR == <<"s","c","r","a","p","e","d","_","p","a","g","e","s">>

MD_DIR == <<"a","i","_","m","a","r","k","d","o","w","n","_","p","a","g","e","s">>

\* the last position of the character c in s, 0 when there is none
LastIndex(s, c) == SetMax({0} \cup {i \in 1..Len(s) : s[i] = c})

\* Path.parent, Path.name and Path.stem
Parent(path) == SubSeq(path, 1, LastIndex(path, "/") - 1)

Name(path) == SubSeq(path, LastIndex(path, "/") + 1, Len(path))

Stem(name) == IF LastIndex(name, ".") > 1 THEN SubSeq(name, 1, LastIndex(name, ".") - 1)
              ELSE name

\* Path.is_dir: a directory is there when a file lies in it
is_dir(fs, directory) == \E q \in DOMAIN fs : Parent(q) = directory

\* directory.glob("*.csv")
GlobCsv(fs, directory) ==
    {q \in DOMAIN fs : /\ Parent(q) = directory
                       /\ Len(Name(q)) >= 4
                       /\ LitAt(<<".","c","s","v">>, Name(q), Len(Name(q)) - 3, NoFlags)}

\* directories of process_csv_files
Directories(fs, input_dir) ==
    IF input_dir # None THEN {input_dir}
    ELSE LET subs == {Parent(q) : q \in {r \in DOMAIN fs : Parent(Parent(r)) = CSV_DIR}}
         IN  IF subs = {} THEN {CSV_DIR} ELSE subs

\* md_filepath = MD_DIR / directory.name / (csv_filepath.stem + ".md")
md_filepath(directory, csv_filepath) ==
    MD_DIR \o <<"/">> \o Name(directory) \o <<"/">> \o Stem(Name(csv_filepath)) \o <<".","m","d">>

\* the test that never finds the file
md_exists_Never(fs, path) == FALSE

\* md_filepath.exists()
md_exists(fs, path) == path \in DOMAIN fs

\* the clause that catches the named class only
Caught_NamedOnly(clauses, exc) == exc \in clauses

\* an except clause catches its class and the classes derived from it; every
\* exception raised here derives from Exception
Caught(clauses, exc) == exc \in clauses \/ "Exception" \in clauses

\* the except clauses around the reading of a row, around the writing of the
\* .md file, around the whole of a file, and in convert_html_to_markdown
RowClauses == {"ValidationError"}

MdClauses == {"IOError"}

FileClauses == {"FileNotFoundError", "Exception"}

GeneratorClauses == {"Exception"}

\* return values of convert_html_to_markdown for a blocked or empty response
\* and for an exception
ConversionFailed(block_reason, url_) ==
    <<"#"," ","C","o","n","v","e","r","s","i","o","n"," ","F","a","i","l","e","d","\n","\n","R","e","a","s","o","n",":"," ">> \o block_reason \o <<"\n","U","R","L",":"," ">> \o url_

ConversionError(e, url_) ==
    <<"#"," ","C","o","n","v","e","r","s","i","o","n"," ","E","r","r","o","r","\n","\n","A","n"," ","e","r","r","o","r"," ","o","c","c","u","r","r","e","d"," ","d","u","r","i","n","g"," ","c","o","n","v","e","r","s","i","o","n",":"," ">> \o e \o <<"\n","U","R","L",":"," ">> \o url_

\* what model.generate_content does: it answers with a text, answers with
\* no parts, raises
GeneratorOutcomes == {"text", "blocked", "raised"}

\* the text of an answer
Replies == {<<"a","b","=","1"," ","\n">>}

\* what datetime.now().isoformat() gives while the converter runs
ConverterClock == {<<"2","0","2","5","-","0","1","-","0","1","T","0","0",":","0","0",":","0","0">>}

convert_html_to_markdown(outcome, reply, url_, now) ==
    CASE outcome = "text"    -> post_process_markdown(reply, url_, now)
      [] outcome = "blocked" -> ConversionFailed(<<"S","A","F","E","T","Y">>, url_)
      [] outcome = "raised"  ->
            IF Caught(GeneratorClauses, "ResourceExhausted")
            THEN ConversionError(<<"4","2","9">>, url_)
            ELSE Raise("ResourceExhausted")

MdFile(text) == [kind |-> "md", text |-> text]

\* the pages scraped earlier: the url and the sitemap each came from
StoredPages == <<[url |-> <<"h","t","t","p","s",":","/","/","a",".","c","o","m","/","b","/","c">>, sitemap |-> SitemapUrl],
                 [url |-> <<"h","t","t","p","s",":","/","/","b",".","o","r","g","/">>, sitemap |-> <<"h","t","t","p","s",":","/","/","b",".","o","r","g","/","s","i","t","e","m","a","p",".","x","m","l">>],
                 [url |-> <<"h","t","t","p","s",":","/","/","a",".","c","o","m","/","f">>, sitemap |-> SitemapUrl],
                 [url |-> <<"h","t","t","p","s",":","/","/","b",".","o","r","g","/","g">>, sitemap |-> <<"h","t","t","p","s",":","/","/","b",".","o","r","g","/","s","i","t","e","m","a","p",".","x","m","l">>]>>

CsvOf(page) == csv_file_path(page.url, DomainOutputDir(page.sitemap, HTML_DIR))

MdOf(page) == md_filepath(Parent(CsvOf(page)), CsvOf(page))

\* what input_dir can be: none, the directory of a crawl, a missing one
InputDirs == {None, DomainOutputDir(SitemapUrl, HTML_DIR), CSV_DIR \o <<"/","m","i","s","s","i","n","g">>}

\* what lies at the place of a page before the first run: the CSV file of
\* the page, that file and a .md file of an earlier run, a CSV file without
\* a row, one whose row fails validation, one whose reading raises (a field
\* larger than the limit of the csv module)
StoredKinds == {"page", "converted", "empty", "invalid", "unreadable"}

StoredFiles(kinds) ==
    LET n     == Len(kinds)
        csvs  == {CsvOf(StoredPages[k]) : k \in 1..n}
        mds   == {MdOf(StoredPages[k]) : k \in {j \in 1..n : kinds[j] = "converted"}}
        at(q) == CHOOSE k \in 1..n : q \in {CsvOf(StoredPages[k]), MdOf(StoredPages[k])}
    IN  [q \in csvs \cup mds |->
            IF q \in mds THEN MdFile(<<"o","l","d">>)
            ELSE IF kinds[at(q)] \in {"page", "converted"}
                 THEN CsvFile(StoredPages[at(q)].url, Html(StoredPages[at(q)].url))
                 ELSE [kind |-> kinds[at(q)]]]

\* the number of generator calls made for each file, none at the start of a run
NoCalls(fs) == [q \in DOMAIN fs |-> 0]

InitConverter ==
    /\ NoCore
    /\ workflow = <<>>
    /\ crawler = <<>>
    /\ \E n \in 0..MaxCsvFiles :
       \E kinds \in [1..n -> StoredKinds] : files = StoredFiles(kinds)
    /\ \E input_dir \in InputDirs :
          converter = [pc |-> "start", input_dir |-> input_dir, directories |-> {},
                       directory |-> None, csv_files |-> {},
                       before |-> <<>>, calls |-> <<>>, read |-> <<>>]

\* process_csv_files is entered: directories is made
ConverterStarted ==
    /\ converter.pc = "start"
    /\ converter' = [converter EXCEPT
           !.pc = "directories",
           !.directories = Directories(files, converter.input_dir),
           !.before = Append(@, files),
           !.calls = Append(@, NoCalls(files)),
           !.read = Append(@, {})]
    /\ UNCHANGED <<Core, workflow, files, crawler>>

\* one turn of  for directory in directories  up to the loop over its files
DirectoryOpened ==
    /\ converter.pc = "directories"
    /\ \E directory \in converter.directories :
          converter' =
              IF is_dir(files, directory) /\ GlobCsv(files, directory) # {}
              THEN [converter EXCEPT !.pc = "files",
                                     !.directories = @ \ {directory},
                                     !.directory = directory,
                                     !.csv_files = GlobCsv(files, directory)]
              ELSE [converter EXCEPT !.directories = @ \ {directory}]
    /\ UNCHANGED <<Core, workflow, files, crawler>>

\* one turn of  for csv_filepath in csv_files
CsvHandled ==
    /\ converter.pc = "files"
    /\ \E csv_filepath \in converter.csv_files :
       \E outcome \in GeneratorOutcomes, reply \in Replies, now \in ConverterClock,
          written \in BOOLEAN :
       \E markdown \in {IF /\ files[csv_filepath].kind = "page"
                            /\ ~md_exists(files, md_filepath(converter.directory,
                                                             csv_filepath))
                         THEN convert_html_to_markdown(outcome, reply,
                                                       files[csv_filepath].url, now)
                         ELSE None} :
          LET run  == Len(converter.calls)
              md   == md_filepath(converter.directory, csv_filepath)
              kind == files[csv_filepath].kind
              next == [converter EXCEPT !.csv_files = @ \ {csv_filepath}]
              read == [next EXCEPT !.read[run] = @ \cup {csv_filepath}]
              escapes(clauses, exc) ==
                  ~Caught(clauses, exc) /\ ~Caught(FileClauses, exc)
          IN  IF md_exists(files, md)
              THEN converter' = next /\ files' = files
              ELSE IF kind = "unreadable"
              THEN /\ converter' = IF escapes({}, "csv.Error")
                                   THEN [read EXCEPT !.pc = "raised"] ELSE read
                   /\ files' = files
              ELSE IF kind = "empty"
              THEN converter' = read /\ files' = files
              ELSE IF kind = "invalid"
              THEN /\ converter' = IF escapes(RowClauses, "ValidationError")
                                   THEN [read EXCEPT !.pc = "raised"] ELSE read
                   /\ files' = files
              ELSE IF markdown = Raise("ResourceExhausted")
              THEN /\ converter' =
                         IF escapes({}, "ResourceExhausted")
                         THEN [read EXCEPT !.pc = "raised",
                                           !.calls[run][csv_filepath] = @ + 1]
                         ELSE [read EXCEPT !.calls[run][csv_filepath] = @ + 1]
                   /\ files' = files
              ELSE IF written
              THEN /\ converter' = [read EXCEPT !.calls[run][csv_filepath] = @ + 1]
                   /\ files' = Written(files, md, MdFile(markdown))
              ELSE /\ converter' =
                         IF escapes(MdClauses, "PermissionError")
                         THEN [read EXCEPT !.pc = "raised",
                                           !.calls[run][csv_filepath] = @ + 1]
                         ELSE [read EXCEPT !.calls[run][csv_filepath] = @ + 1]
                   /\ files' = files
    /\ UNCHANGED <<Core, workflow, crawler>>

\* the loop over the files of a directory is over
DirectoryFinished ==
    /\ converter.pc = "files"
    /\ converter.csv_files = {}
    /\ converter' = [converter EXCEPT !.pc = "directories", !.directory = None]
    /\ UNCHANGED <<Core, workflow, files, crawler>>

\* the loop over the directories is over: process_csv_files returns
ConverterReturned ==
    /\ converter.pc = "directories"
    /\ converter.directories = {}
    /\ converter' = [converter EXCEPT !.pc = "returned"]
    /\ UNCHANGED <<Core, workflow, files, crawler>>

\* the script is run again on the same input
ConverterRunAgain ==
    /\ converter.pc = "returned"
    /\ Len(converter.calls) < MaxRuns
    /\ converter' = [converter EXCEPT !.pc = "start"]
    /\ UNCHANGED <<Core, workflow, files, crawler>>

NextConverter ==
    \/ ConverterStarted
    \/ DirectoryOpened
    \/ CsvHandled
    \/ DirectoryFinished
    \/ ConverterReturned
    \/ ConverterRunAgain

SpecConverter == InitConverter /\ [][NextConverter]_vars

\* the paths of the CSV file and of the .md file of each stored page
StoredCsv == [k \in DOMAIN StoredPages |-> CsvOf(StoredPages[k])]

StoredMd == [k \in DOMAIN StoredPages |-> MdOf(StoredPages[k])]

\* the texts convert_html_to_markdown returns for an answer of the generator
Enhanced(url_) ==
    {post_process_markdown(reply, url_, now) : reply \in Replies, now \in ConverterClock}

\* the .md files the runs of the converter made
MadeByConverter ==
    IF converter.before = <<>> THEN {}
    ELSE {k \in DOMAIN StoredPages :
             /\ StoredMd[k] \in DOMAIN files
             /\ StoredMd[k] \notin DOMAIN converter.before[1]}

\* C26 as stated: a .md file is made only for a page whose generator call
\* succeeded, so every .md file the converter made holds the post-processed
\* answer of the generator; a page whose call raised or was blocked has no
\* .md file.
C26_MdOnlyOnSuccess ==
    \A k \in MadeByConverter :
        files[StoredMd[k]].text \in Enhanced(StoredPages[k].url)

\* C27: a .md file that is there when a run starts is still there with the
\* same content whenever looked at later, and that run makes no generator
\* call for its CSV file; so a second run makes no call for the files whose
\* .md file the first run wrote.
C27_ExistingMdKept ==
    \A run \in DOMAIN converter.before :
        \A k \in DOMAIN StoredPages :
            LET md == StoredMd[k]
                f  == StoredCsv[k]
            IN  md \in DOMAIN converter.before[run] =>
                    /\ md \in DOMAIN files
                    /\ files[md] = converter.before[run][md]
                    /\ f \in DOMAIN converter.calls[run] => converter.calls[run][f] = 0

\* the first run wrote the .md file of the first page, the second run went
\* over the same directories and has returned
C27_Witness ==
    /\ converter.pc = "returned"
    /\ Len(converter.calls) = 2
    /\ converter.input_dir = None
    /\ StoredMd[1] \notin DOMAIN converter.before[1]
    /\ StoredMd[1] \in DOMAIN converter.before[2]
    /\ converter.calls[1][StoredCsv[1]] = 1
    /\ converter.calls[2][StoredCsv[1]] = 0

\* C28: no failure on a file leaves process_csv_files, and when a run returns
\* every CSV file of every input directory that had no .md file at the start
\* of the run has been read, and the generator was called once for it if it
\* holds a valid row and not at all otherwise.
C28_FailuresIsolated ==
    /\ converter.pc # "raised"
    /\ converter.pc = "returned" =>
          LET run   == Len(converter.calls)
              start == converter.before[run]
          IN  \A directory \in Directories(start, converter.input_dir) :
                  \A f \in GlobCsv(start, directory) :
                      md_filepath(directory, f) \notin DOMAIN start =>
                          /\ f \in converter.read[run]
                          /\ converter.calls[run][f] =
                                 IF start[f].kind = "page" THEN 1 ELSE 0

\* the row of the first file failed validation, the second file of the run
\* was converted and saved
C28_Witness ==
    /\ converter.pc = "returned"
    /\ Len(converter.calls) = 1
    /\ StoredCsv[1] \in converter.read[1]
    /\ files[StoredCsv[1]].kind = "invalid"
    /\ StoredCsv[2] \in converter.read[1]
    /\ converter.calls[1][StoredCsv[2]] = 1
    /\ StoredMd[2] \in DOMAIN files

(***************************************************************************)
(* Properties of the lines of a formatted block                            *)
(***************************************************************************)
\* C21 as stated: a text that is shorter than 5 characters once the
\* whitespace around it is trimmed is returned unchanged, with the language
\* that was given.
C21_TrimmedThreshold ==
    (pc = "done" /\ Len(Strip(code_text)) < MinLength)
        => /\ ~ret.raised
           /\ ret.text = code_text
           /\ ret.language = language

\* the non-blank lines of a text, in their order
InkedLines(text) == SelectSeq(SplitLines(text), LAMBDA line : ~IsBlank(line))

\* the number of whitespace characters a line begins with
Width(line) == SetMin(Inked(line)) - 1

\* line begins with exactly n spaces and a character that is no whitespace
SpacesThenInk(line, n) ==
    /\ Len(line) > n
    /\ \A i \in 1..n : line[i] = " "
    /\ line[n + 1] \notin SpaceChars

\* every non-blank line of the output begins with as many spaces as its line
\* of the input has whitespace more than the least indented line
IndentationRebased ==
    LET in  == InkedLines(code_text)
        out == InkedLines(ret.text)
        m   == SetMin({Width(in[k]) : k \in DOMAIN in})
    IN  /\ Len(out) = Len(in)
        /\ \A k \in DOMAIN in : SpacesThenInk(out[k], Width(in[k]) - m)
        /\ \E k \in DOMAIN out : Width(out[k]) = 0

\* the call does not return a re-serialized JSON value
NotReserialized == ~JsonParses

\* C22 as stated: on every path but the JSON re-serialization, each non-blank
\* line of the output begins with exactly w_i - m spaces and a non-whitespace
\* character.
C22_RelativeIndentation ==
    (pc = "done" /\ NotReserialized /\ HasInk(code_text)) => IndentationRebased

\* C22 amended: the same for a text of 5 characters or more; a shorter text is
\* returned with the indentation it came with.
C22_RelativeIndentationFromFive ==
    (pc = "done" /\ NotReserialized /\ HasInk(code_text)
        /\ Len(code_text) >= MinLength) => IndentationRebased

\* lines indented by 1 and by 3 come back indented by 0 and by 2
C22_Witness ==
    /\ pc = "done"
    /\ language = <<"p","y","t","h","o","n">>
    /\ code_text = <<" ","a","b","=","1","\n"," "," "," ","r","e","t","u","r","n","1","\n">>
    /\ ret.text = <<"a","b"," ","="," ","1","\n"," "," ","r","e","t","u","r","n"," ","1">>

\* the lines of the output are those of the input from its first to its last
\* non-blank line, every blank one of them as one empty line
BlankLinesKept ==
    LET in    == SplitLines(code_text)
        inked == {k \in DOMAIN in : ~IsBlank(in[k])}
        first == SetMin(inked)
        last  == SetMax(inked)
        out   == SplitLines(ret.text)
    IN  /\ Len(out) = last - first + 1
        /\ \A k \in DOMAIN out :
              IF IsBlank(in[first + k - 1]) THEN out[k] = <<>>
              ELSE ~IsBlank(out[k])

\* the returned text neither begins nor ends with a blank line
NoBlankEnds ==
    LET out == SplitLines(ret.text)
    IN  /\ out # <<>>
        /\ ~IsBlank(out[1])
        /\ ~IsBlank(out[Len(out)])
        /\ ret.text[Len(ret.text)] # "\n"

\* C23 as stated: on every path but the JSON re-serialization and the
\* short-block passthrough the returned text neither begins nor ends with a
\* blank line, and every interior blank line of the input is one empty line
\* at the same place.
C23_BlankLines ==
    (pc = "done" /\ NotReserialized /\ Len(code_text) >= MinLength)
        => /\ NoBlankEnds
           /\ HasInk(code_text) => BlankLinesKept

\* C23 amended: the same for a text that has a non-blank line; a text of
\* blank lines only is returned as it was given.
C23_BlankLinesOfInkedText ==
    (pc = "done" /\ NotReserialized /\ Len(code_text) >= MinLength)
        => IF HasInk(code_text) THEN NoBlankEnds /\ BlankLinesKept
           ELSE ret.text = code_text

\* a whitespace-only line between two lines of different indentation
C23_Witness ==
    /\ pc = "done"
    /\ language = <<"t","e","x","t">>
    /\ code_text = <<" ","a","b","=","1","\n"," "," ","\n","a","b">>
    /\ ret.text = <<" ","a","b","=","1","\n","\n","a","b">>

\* the languages C24 names as the ones with a path of their own
NamedLanguages == {<<"p","y","t","h","o","n">>, <<"j","a","v","a","s","c","r","i","p","t">>, <<"t","y","p","e","s","c","r","i","p","t">>, <<"j","s","o","n">>}

\* every non-blank line of the output is its relative indentation and the
\* content of its line of the input, the leading whitespace removed
ContentUntouched ==
    LET in  == InkedLines(code_text)
        out == InkedLines(ret.text)
        m   == SetMin({Width(in[k]) : k \in DOMAIN in})
    IN  /\ Len(out) = Len(in)
        /\ \A k \in DOMAIN in :
              out[k] = Spaces(Width(in[k]) - m) \o LStrip(in[k])

\* C24 as stated: for every language that is not python, javascript,
\* typescript or json the output lines are the relative indentation and the
\* untouched content, and the language is returned as given.
C24_NoSubstitution ==
    (pc = "done" /\ language \notin NamedLanguages)
        => /\ ret.language = language
           /\ HasInk(code_text) => ContentUntouched

\* C24 amended: the same for every language that is not python, javascript,
\* typescript, jsx, tsx or json, and for a text of 5 characters or more.
C24_NoSubstitutionOutsideFamilies ==
    (pc = "done" /\ language \notin (NamedLanguages \cup {<<"j","s","x">>, <<"t","s","x">>}))
        => /\ ret.language = language
           /\ (HasInk(code_text) /\ Len(code_text) >= MinLength) => ContentUntouched

\* a yaml block keeps its glued keyword and its unspaced operator
C24_Witness ==
    /\ pc = "done"
    /\ language = <<"y","a","m","l">>
    /\ code_text = <<" ","a","b","=","1","\n"," "," "," ","r","e","t","u","r","n","1","\n">>
    /\ ret.text = <<"a","b","=","1","\n"," "," ","r","e","t","u","r","n","1">>
====
